---------------------------- MODULE Spec2Model ----------------------------
(***************************************************************************)
(* GitSync (SAJANCODER/testing_2_bot): webhook ingestion, the push unit of *)
(* work run by the thread pool, the GitHub-token install handshake, and    *)
(* the maintenance switch with its admin routes.                           *)
(*                                                                         *)
(* The tables of init_db are the state.  Every route handler is one        *)
(* action; the unit of work process_standup_task is three steps (compare,  *)
(* revoke, finish) because other requests run between its network calls.   *)
(***************************************************************************)
EXTENDS Naturals, Integers, Sequences, FiniteSets, TLC

VARIABLES
    webhooks,                \* table webhooks: rows [secret_key, chat_id]
    github_tokens,           \* table github_tokens: rows [chat_id, token, created_by]
    pending_token_requests,  \* table pending_token_requests, in insertion order
    project_updates,         \* table project_updates, in insertion order
    pull_requests,           \* table pull_requests: rows [id, chat_id, author, merged,
                             \*   created_at, merged_at]
    pr_reviews,              \* table pr_reviews: rows [id, pr_id, reviewer, state, submitted_at]
    issues_closed,           \* table issues_closed: rows [id, author, closed_by, closed_at]
    pending_commits,         \* the Pending Queue (durable, oldest first)
    tasks,                   \* units of work submitted to executor, not yet finished
    sent,                    \* messages posted to tenant chats by the ingestion path
    flag,                    \* TRUE iff MAINTENANCE_FLAG_FILE exists
    hooked,                  \* TRUE iff maintenance_middleware(app) was registered
    ADMIN_KEY,               \* the ADMIN_KEY of the environment, NONE when unset
    now,                     \* wall clock, in minutes
    last,                    \* the last HTTP exchange: request facts and response
    nreq,                    \* webhook deliveries that passed authentication
    log,                     \* the error lines printed so far, by handler, oldest first
    insert_ok                \* TRUE iff an INSERT into project_updates succeeds

vars == <<webhooks, github_tokens, pending_token_requests, project_updates,
          pull_requests, pr_reviews, issues_closed, pending_commits, tasks,
          sent, flag, hooked, ADMIN_KEY, now, last, nreq, log,
          insert_ok>>

config == <<hooked, ADMIN_KEY, webhooks>>

stores == <<github_tokens, pending_token_requests, project_updates,
            pull_requests, pr_reviews, issues_closed, pending_commits>>

-----------------------------------------------------------------------------
(* Bounds of the model *)

MaxRequests == 2     \* webhook deliveries accepted in one behaviour
MaxPending == 2      \* rows of pending_token_requests
MaxQueue == 3        \* entries of the Pending Queue at start
MaxNow == 30         \* the clock stops here
MaxPushes == 1       \* pushes delivered in one behaviour of SpecVault

-----------------------------------------------------------------------------
(* Values *)

NONE == "<None>"                  \* Python's None / SQL NULL / absent parameter
ABSENT == "<absent>"              \* key not in the payload dict
NOTDICT == "<not-a-dict>"         \* key present, value is not a JSON object

Str(v) == IF v = NONE THEN "None" ELSE v        \* Python str()
Truthy(v) == v # NONE /\ v # ""                 \* Python truthiness of a str or None

Tenants == {"t1", "t2"}
Users == {"u1", "u2"}
Authors == {"alice", "bob"}
Tokens == {"ghp_a", "ghp_b"}

\* message['from'].get('username'): a Telegram user need not have one
Username(u) == IF u = "u1" THEN "u1name" ELSE NONE

\* a commit of a push payload: id and the lengths of its added/removed/modified lists
Commit(id, a, r, m) == [id |-> id, added |-> a, removed |-> r, modified |-> m]
c1 == Commit("c1", 1, 0, 1)
c2 == Commit("c2", 0, 1, 2)
c3 == Commit("c3", 2, 0, 0)

\* a webhook body.  json: what request.json yields ("object" a dict, "array" a
\* non-dict JSON value, "null" JSON null, "malformed" no JSON at all)
Body(json, pusher, sender, commits, head, revs, pr, review, issue) ==
    [json |-> json, pusher |-> pusher, sender |-> sender, commits |-> commits,
     head |-> head, revs |-> revs, pr |-> pr, review |-> review, issue |-> issue,
     name |-> TRUE]

\* the same body without repository.name
Unnamed(data) == [data EXCEPT !.name = FALSE]

Push(pusher, commits, revs) ==
    Body("object", pusher, ABSENT, commits, <<>>, revs, <<>>, <<>>, <<>>)
Shape(json) == Body(json, ABSENT, ABSENT, <<>>, <<>>, FALSE, <<>>, <<>>, <<>>)
\* timestamps are minutes counted from the start of the current week; a
\* delivered pull request was opened at 0 and merged, if at all, at 10, a
\* delivered review was submitted and a delivered issue closed at 5
PrBody(id, author, merged) ==
    Body("object", ABSENT, author, <<>>, <<>>, FALSE,
         <<[id |-> id, author |-> author, merged |-> merged, created_at |-> 0,
            merged_at |-> IF merged THEN 10 ELSE NONE]>>, <<>>, <<>>)
ReviewBody(id, pr_id, reviewer, state) ==
    Body("object", ABSENT, reviewer, <<>>, <<>>, FALSE,
         <<[id |-> pr_id, author |-> NONE, merged |-> FALSE, created_at |-> 0,
            merged_at |-> NONE]>>,
         <<[id |-> id, reviewer |-> reviewer, state |-> state, submitted_at |-> 5]>>, <<>>)
IssueBody(id, author, closed_by) ==
    Body("object", ABSENT, author, <<>>, <<>>, FALSE, <<>>, <<>>,
         <<[id |-> id, author |-> author, closed_by |-> closed_by, closed_at |-> 5]>>)

\* what the compare API answers: an HTTP status, or no answer within the timeout
UpstreamAnswers == {"200", "401", "403", "500", "timeout"}
\* the files of a 200 answer: [additions, deletions, status] per file
Files1 == {[filename |-> "f1", additions |-> 3, deletions |-> 1, status |-> "modified"],
           [filename |-> "f2", additions |-> 2, deletions |-> 0, status |-> "added"]}
Files2 == {[filename |-> "f1", additions |-> 40, deletions |-> 7, status |-> "modified"],
           [filename |-> "f3", additions |-> 2, deletions |-> 0, status |-> "modified"],
           [filename |-> "f4", additions |-> 0, deletions |-> 0, status |-> "removed"]}


-----------------------------------------------------------------------------
(* Sequence helpers *)

RemoveAt(s, i) == SubSeq(s, 1, i - 1) \o SubSeq(s, i + 1, Len(s))
Range(s) == {s[i] : i \in DOMAIN s}

RECURSIVE SumOver(_, _)
\* the sum of f[x] over the finite set S
SumOver(S, f) ==
    IF S = {} THEN 0
    ELSE LET x == CHOOSE y \in S : TRUE IN f[x] + SumOver(S \ {x}, f)

-----------------------------------------------------------------------------
(* The last HTTP exchange.  route, kind, who and chat are the request,        *)
(* resolves and closed are facts about it (does the registry map the secret  *)
(* to exactly the claimed tenant; was the flag file present), status, text   *)
(* and counts are the response, did are the calls the handler itself made    *)
(* before it answered.  A flush also records what it left unread, the rows   *)
(* it wrote, and the flush it directly follows; a dashboard answer carries   *)
(* the leaderboard it rendered.                                              *)

NoFlush == [again |-> FALSE, counts |-> <<0, 0>>, left |-> 0]

\* upstream is the validation call the handler made: the token sent, the answer
NoCall == [token |-> NONE, answer |-> NONE]

Exchange(route, status, kind, chat) ==
    [route |-> route, status |-> status, kind |-> kind, chat |-> chat,
     resolves |-> FALSE, closed |-> flag, who |-> NONE, text |-> "",
     counts |-> <<0, 0>>, did |-> {}, left |-> 0, wrote |-> 0, before |-> NoFlush,
     upstream |-> NoCall, board |-> <<>>, key |-> NONE, auto_flush |-> NONE]

NoExchange == [Exchange("none", 0, "", NONE) EXCEPT !.closed = FALSE]

\* the Tenant Registry's own answer: secret is registered for exactly this tenant
Resolves(secret_key, chat) ==
    [secret_key |-> secret_key, chat_id |-> chat] \in webhooks

-----------------------------------------------------------------------------
(* server.py: DB helpers *)

get_chat_id_from_secret(secret_key) ==
    IF \E w \in webhooks : w.secret_key = secret_key
    THEN (CHOOSE w \in webhooks : w.secret_key = secret_key).chat_id
    ELSE NONE

\* a row of project_updates; summary is the summarizer's text for a commit
UpdateRow(chat_id, author, summary, added, modified, removed, lines_added, lines_removed) ==
    [chat_id |-> Str(chat_id), author |-> author, summary |-> summary,
     files_added |-> added, files_modified |-> modified, files_removed |-> removed,
     lines_added |-> lines_added, lines_removed |-> lines_removed]

\* save_to_db, lines 180-195: the rows are inserted one by one; an INSERT that
\* fails is printed (line 193), nothing is raised and nothing is returned
save_to_db(updates, rows) == IF insert_ok THEN updates \o rows ELSE updates
save_to_db_prints(rows) == IF insert_ok THEN <<>> ELSE [k \in DOMAIN rows |-> "save_to_db"]

\* generate_ai_analysis: the model's text, or "AI Analysis Failed: ..."
generate_ai_analysis(commit_id, failed) ==
    [commit |-> commit_id, text |-> IF failed THEN "AI Analysis Failed" ELSE "review"]

\* a call of the Telegram transport; by is the thread that made it
Message(chat_id, by, kind, items) ==
    [chat_id |-> chat_id, by |-> by, kind |-> kind, items |-> items]

\* send_to_telegram: nothing is posted without a chat id
send_to_telegram(outbox, chat_id, by, kind, items) ==
    IF ~Truthy(chat_id) THEN outbox
    ELSE Append(outbox, Message(chat_id, by, kind, items))

\* github_tokens
TokenRows(chat_id) == {r \in github_tokens : r.chat_id = Str(chat_id)}

get_decrypted_token_for_chat(chat_id) ==
    IF TokenRows(chat_id) = {} THEN NONE
    ELSE (CHOOSE r \in TokenRows(chat_id) : TRUE).token

get_token_creator_for_chat(chat_id) ==
    IF TokenRows(chat_id) = {} THEN NONE
    ELSE (CHOOSE r \in TokenRows(chat_id) : TRUE).created_by

\* a plain INSERT into a table without the primary key on chat_id
save_without_conflict(chat_id, plaintext_token, created_by) ==
    github_tokens
        \cup {[chat_id |-> Str(chat_id), token |-> plaintext_token, created_by |-> created_by]}

\* INSERT ... ON CONFLICT (chat_id) DO UPDATE
save_encrypted_token_for_chat(chat_id, plaintext_token, created_by) ==
    (github_tokens \ TokenRows(chat_id))
        \cup {[chat_id |-> Str(chat_id), token |-> plaintext_token, created_by |-> created_by]}

\* a DELETE that matches no row
remove_no_row(chat_id) == github_tokens

\* DELETE FROM github_tokens WHERE chat_id = %s
remove_token_for_chat(chat_id) == github_tokens \ TokenRows(chat_id)

-----------------------------------------------------------------------------
(* maintenance.py *)

is_maintenance_enabled == flag

\* the hook answers 503 on every path, the admin ones included
block_every_path(path_is_admin) == hooked /\ is_maintenance_enabled

\* _block_if_maintenance: the before_request hook answers 503 for every
\* non-admin path while the flag file exists (only when the hook is registered)
block_if_maintenance(path_is_admin) ==
    hooked /\ ~path_is_admin /\ is_maintenance_enabled

-----------------------------------------------------------------------------
(* server.py: /webhook *)

\* line 567: the request passes unless a parameter is missing or the strings differ
git_webhook_authorized(secret_key, target_chat_id) ==
    ~(\/ ~Truthy(secret_key)
      \/ ~Truthy(target_chat_id)
      \/ Str(get_chat_id_from_secret(secret_key)) # Str(target_chat_id))

\* lines 574-578 raise (outside the try) when data is None, or when the
\* pusher / sender value has no .get
author_raises(data) ==
    \/ data.json = "null"
    \/ /\ data.json = "object"
       /\ \/ data.pusher = NOTDICT
          \/ data.pusher = ABSENT /\ data.sender = NOTDICT

\* lines 574-578
author_name(data) ==
    IF data.json = "object" /\ data.pusher # ABSENT THEN data.pusher
    ELSE IF data.json = "object" /\ data.sender # ABSENT THEN data.sender
    ELSE "Unknown"

\* handle_pull_request_event: upsert by id; a conflict updates every column but chat_id
handle_pull_request_event(data, target_chat) ==
    IF data.pr = <<>> \/ data.pr[1].id = NONE THEN pull_requests
    ELSE LET pr == data.pr[1]
             old == {r \in pull_requests : r.id = pr.id}
         IN  IF old = {}
             THEN pull_requests \cup {[id |-> pr.id, chat_id |-> Str(target_chat),
                                       author |-> pr.author, merged |-> pr.merged,
                                       created_at |-> pr.created_at,
                                       merged_at |-> pr.merged_at]}
             ELSE (pull_requests \ old)
                  \cup {[r EXCEPT !.author = pr.author, !.merged = pr.merged,
                                  !.created_at = pr.created_at,
                                  !.merged_at = pr.merged_at] : r \in old}

\* handle_pr_review_event: upsert by id; pr_id must be NULL or an existing pull request
handle_pr_review_event(data) ==
    IF data.review = <<>> \/ data.review[1].id = NONE THEN pr_reviews
    ELSE LET rv == data.review[1]
             pr_id == IF data.pr = <<>> THEN NONE ELSE data.pr[1].id
             old == {r \in pr_reviews : r.id = rv.id}
         IN  IF old # {}
             THEN (pr_reviews \ old)
                  \cup {[r EXCEPT !.state = rv.state,
                                  !.submitted_at = rv.submitted_at] : r \in old}
             ELSE IF pr_id # NONE /\ ~\E p \in pull_requests : p.id = pr_id
             THEN pr_reviews
             ELSE pr_reviews \cup {[id |-> rv.id, pr_id |-> pr_id,
                                    reviewer |-> rv.reviewer, state |-> rv.state,
                                    submitted_at |-> rv.submitted_at]}

\* handle_issues_event: upsert by id; a conflict updates closed_by
handle_issues_event(data) ==
    IF data.issue = <<>> \/ data.issue[1].id = NONE THEN issues_closed
    ELSE LET is == data.issue[1]
             old == {r \in issues_closed : r.id = is.id}
         IN  IF old = {}
             THEN issues_closed \cup {[id |-> is.id, author |-> is.author,
                                       closed_by |-> is.closed_by,
                                       closed_at |-> is.closed_at]}
             ELSE (issues_closed \ old)
                  \cup {[r EXCEPT !.closed_by = is.closed_by,
                                  !.closed_at = is.closed_at] : r \in old}

\* a unit of work as submitted: process_standup_task's arguments and its position
Task(target_chat_id, author, data) ==
    [chat_id |-> target_chat_id, author |-> author, data |-> data,
     pc |-> "queued", err |-> NONE, files |-> {}, token |-> NONE]

\* lines 580-609: what the routed branch does to (tables, outbox, executor)
DispatchKinds == {"pull_request", "pull_request_review", "issues"}

git_webhook(data, secret_key, target_chat_id, gh_event) ==
    LET res == Resolves(secret_key, target_chat_id)
        dict == data.json = "object"
        ex(status) == [Exchange("webhook", status, gh_event, target_chat_id)
                          EXCEPT !.resolves = res,
                                 !.did = IF status = 200 /\ gh_event \in DispatchKinds /\ dict
                                         THEN {"telegram"} ELSE {}]
    IN
    IF block_if_maintenance(FALSE)
    THEN /\ last' = ex(503)
         /\ UNCHANGED <<config, insert_ok, log, stores, tasks, sent, flag, now, nreq>>
    ELSE IF data.json = "malformed"
    THEN /\ last' = ex(400)
         /\ UNCHANGED <<config, insert_ok, log, stores, tasks, sent, flag, now, nreq>>
    ELSE IF ~git_webhook_authorized(secret_key, target_chat_id)
    THEN /\ last' = ex(401)
         /\ UNCHANGED <<config, insert_ok, log, stores, tasks, sent, flag, now, nreq>>
    ELSE /\ nreq < MaxRequests
         /\ nreq' = nreq + 1
         /\ IF author_raises(data)
            THEN /\ last' = ex(500)
                 /\ UNCHANGED <<stores, tasks, sent>>
            ELSE /\ last' = ex(200)
                 /\ pull_requests' = IF gh_event = "pull_request" /\ dict
                                     THEN handle_pull_request_event(data, target_chat_id)
                                     ELSE pull_requests
                 /\ pr_reviews' = IF gh_event = "pull_request_review" /\ dict
                                  THEN handle_pr_review_event(data)
                                  ELSE pr_reviews
                 /\ issues_closed' = IF gh_event = "issues" /\ dict
                                     THEN handle_issues_event(data)
                                     ELSE issues_closed
                 /\ sent' = IF gh_event \in DispatchKinds /\ dict
                            THEN send_to_telegram(sent, target_chat_id, "request", gh_event, <<>>)
                            ELSE sent
                 /\ tasks' = IF gh_event \in DispatchKinds
                             THEN tasks
                             ELSE Append(tasks, Task(target_chat_id, author_name(data), data))
                 /\ UNCHANGED <<github_tokens, pending_token_requests,
                                project_updates, pending_commits>>
         /\ UNCHANGED <<config, insert_ok, log, flag, now>>

-----------------------------------------------------------------------------
(* server.py: process_standup_task, the unit of work *)

max_workers == 5

\* lines 617, 624-625: the listed commits, or the head commit when none is listed
task_commits(data) == IF data.commits = <<>> THEN data.head ELSE data.commits

\* line 618: data.get('repository', {}).get('name', 'Unknown Repo')
repo_name(data) == IF data.name THEN "repo" ELSE "Unknown Repo"

\* line 634: owner_login and repo_name and before_sha and after_sha; revs says
\* that the payload has the owner's login and both revisions
compare_attempted(data) == data.revs /\ Truthy(repo_name(data))

\* try_compare_api_with_chat_token: the error string, NONE on a 200
compare_err(token, answer) ==
    IF ~Truthy(token) THEN "no-token"
    ELSE IF answer = "200" THEN NONE
    ELSE IF answer = "401" THEN "auth-failed-401"
    ELSE IF answer = "403" THEN "auth-failed-403"
    ELSE IF answer = "timeout" THEN "exception"
    ELSE "error-500"

\* line 654: compare_err and compare_err.startswith("auth-failed")
auth_failed(err) == err \in {"auth-failed-401", "auth-failed-403"}

\* the tag set on any compare error
tag_on_any_error(err) == IF err # NONE THEN "token-invalid" ELSE "estimated"

\* line 653-659: the tag of the fallback branch
confidence_tag(err) == IF auth_failed(err) THEN "token-invalid" ELSE "estimated"

\* the units submitted after the failed one are lost with it
pool_stops(pool, i) == SubSeq(pool, 1, i - 1)

\* lines 679-681: the error is caught in the unit's own thread, which ends; the
\* executor's other units are untouched
unit_caught(pool, i) == RemoveAt(pool, i)

\* the lines the except clauses print, by handler (lines 193, 422-424, 680;
\* maintenance.py line 103)
LogLines == {"save_to_db", "send_to_telegram", "process_standup_task", "auto-flush"}

\* lines 627-635: the compare call, made only with owner, repo and both revisions
TaskCompare(i, answer, files) ==
    /\ i \in DOMAIN tasks /\ i <= max_workers
    /\ tasks[i].pc = "queued"
    /\ LET t == tasks[i]
           token == get_decrypted_token_for_chat(t.chat_id)
           err == compare_err(token, answer)
       IN  IF t.data.json # "object"
           THEN /\ tasks' = unit_caught(tasks, i)   \* data.get raises: caught at line 679
                /\ log' = Append(log, "process_standup_task")
           ELSE /\ tasks' = IF ~compare_attempted(t.data)
                            THEN [tasks EXCEPT ![i].pc = "fallback"]
                            ELSE [tasks EXCEPT
                                     ![i].pc = IF err = NONE THEN "exact" ELSE "fallback",
                                     ![i].err = err,
                                     ![i].token = token,
                                     ![i].files = IF err = NONE THEN files ELSE {}]
                /\ log' = log
    /\ UNCHANGED <<config, insert_ok, stores, sent, flag, now, last, nreq>>

\* mark_token_invalid: the row is deleted, the group is warned, and the installer
\* is named when the row recorded one
mark_token_invalid_sent(outbox, chat_id, creator) ==
    LET warned == Append(outbox, Message(chat_id, "worker", "token-invalid-group", <<>>))
    IN  IF Truthy(creator)
        THEN Append(warned, Message(chat_id, "worker", "token-invalid-creator", <<>>))
        ELSE warned

\* lines 654-659
TaskRevoke(i) ==
    /\ i \in DOMAIN tasks /\ i <= max_workers
    /\ tasks[i].pc = "fallback"
    /\ auth_failed(tasks[i].err)
    /\ github_tokens' = remove_token_for_chat(tasks[i].chat_id)
    /\ sent' = mark_token_invalid_sent(sent, tasks[i].chat_id,
                                       get_token_creator_for_chat(tasks[i].chat_id))
    /\ tasks' = [tasks EXCEPT ![i].pc = "marked"]
    /\ UNCHANGED <<config, insert_ok, log, pending_token_requests, project_updates, pull_requests,
                   pr_reviews, issues_closed, pending_commits, flag, now, last, nreq>>

\* the row of the exact branch written without the two keyword arguments
exact_row_no_lines(t, aifail) ==
    LET commits == task_commits(t.data)
        head == IF t.data.head # <<>> THEN t.data.head[1].id
                ELSE IF commits # <<>> THEN commits[1].id ELSE "none"
    IN  UpdateRow(t.chat_id, t.author, generate_ai_analysis(head, 1 \in aifail),
                  0, Cardinality({f \in t.files : f.status = "modified"}), 0, 0, 0)

\* lines 637-648: the one row of the exact branch
exact_row(t, aifail) ==
    LET commits == task_commits(t.data)
        head == IF t.data.head # <<>> THEN t.data.head[1].id
                ELSE IF commits # <<>> THEN commits[1].id ELSE "none"
        adds == [f \in t.files |-> f.additions]
        dels == [f \in t.files |-> f.deletions]
        total_modified == Cardinality({f \in t.files : f.status = "modified"})
    IN  UpdateRow(t.chat_id, t.author, generate_ai_analysis(head, 1 \in aifail),
                  0, total_modified, 0, SumOver(t.files, adds), SumOver(t.files, dels))

\* line 672: commit.get('id', 'unknown')[:7] raises on a null id
commit_raises(c) == c.id = NONE

\* the commits the loop of lines 662-674 gets through: all of them, or those
\* before the first one that raises
looped(commits) ==
    LET bad == {k \in DOMAIN commits : commit_raises(commits[k])}
    IN  IF bad = {} THEN Len(commits)
        ELSE (CHOOSE k \in bad : \A j \in bad : k <= j) - 1

\* the loop stops at the first commit whose summarizer call failed
rows_until_failure(t, aifail) ==
    LET commits == task_commits(t.data)
        stop == {k \in DOMAIN commits : k \in aifail \/ commit_raises(commits[k])}
        n == IF stop = {} THEN Len(commits)
             ELSE (CHOOSE k \in stop : \A j \in stop : k <= j) - 1
    IN  [k \in 1..n |->
            UpdateRow(t.chat_id, t.author, generate_ai_analysis(commits[k].id, FALSE),
                      commits[k].added, commits[k].modified, commits[k].removed, 0, 0)]

\* lines 662-674: one row per commit, in payload order
fallback_rows(t, aifail) ==
    LET commits == task_commits(t.data)
    IN  [k \in 1..looped(commits) |->
            UpdateRow(t.chat_id, t.author,
                      generate_ai_analysis(commits[k].id, k \in aifail),
                      commits[k].added, commits[k].modified, commits[k].removed, 0, 0)]

\* only the last commit's entry is kept
updates_last_only(t, tag) ==
    LET commits == task_commits(t.data)
    IN  IF commits = <<>> THEN <<>>
        ELSE <<[commit |-> commits[Len(commits)].id, confidence |-> tag]>>

\* line 673: the entries of all_updates
fallback_updates(t, tag) ==
    LET commits == task_commits(t.data)
    IN  [k \in DOMAIN commits |-> [commit |-> commits[k].id, confidence |-> tag]]

\* the answers of the Telegram API to a sendMessage call
TelegramAnswers == {"200", "400", "exception"}

\* lines 420-424: a status other than 200 and an exception are printed, not raised
send_failed(tg) == tg # "200"

\* a refused report surfaces as an error of the unit
refusal_raises(raised, refused) ==
    IF raised \/ refused THEN <<"process_standup_task">> ELSE <<>>

\* what the unit prints: the handler of line 679 for an error of its own, the
\* handlers of lines 421-424 for a report the Telegram API refuses
unit_prints(raised, refused) ==
    IF raised THEN <<"process_standup_task">>
    ELSE IF refused THEN <<"send_to_telegram">>
    ELSE <<>>

\* lines 637-651 (exact) and 660-677 (fallback), to the end of the unit;
\* tg is the answer of the Telegram API to the unit's report
TaskEnd(i, aifail, tg) ==
    /\ i \in DOMAIN tasks /\ i <= max_workers
    /\ LET t == tasks[i]
           tag == confidence_tag(t.err)
           commits == task_commits(t.data)
           raised == t.pc # "exact" /\ looped(commits) < Len(commits)
           posts == IF t.pc = "exact" THEN TRUE
                    ELSE ~raised /\ fallback_updates(t, tag) # <<>>
           printed == unit_prints(raised, posts /\ Truthy(t.chat_id) /\ send_failed(tg))
       IN  /\ \/ t.pc = "exact"
              \/ t.pc = "marked"
              \/ t.pc = "fallback" /\ ~auth_failed(t.err)
           /\ aifail \subseteq (IF t.pc = "exact" THEN {1} ELSE 1..looped(commits))
           /\ IF t.pc = "exact"
              THEN /\ project_updates' = save_to_db(project_updates, <<exact_row(t, aifail)>>)
                   /\ sent' = IF send_failed(tg) THEN sent
                              ELSE send_to_telegram(sent, t.chat_id, "worker", "exact",
                                       <<[commit |-> "push", confidence |-> "exact"]>>)
              ELSE /\ project_updates' = save_to_db(project_updates, fallback_rows(t, aifail))
                   /\ sent' = IF ~posts \/ send_failed(tg) THEN sent
                              ELSE send_to_telegram(sent, t.chat_id, "worker", "report",
                                                    fallback_updates(t, tag))
           /\ log' = log \o save_to_db_prints(IF t.pc = "exact" THEN <<exact_row(t, aifail)>>
                                               ELSE fallback_rows(t, aifail))
                         \o printed
           /\ tasks' = IF raised THEN unit_caught(tasks, i) ELSE RemoveAt(tasks, i)
    /\ UNCHANGED <<config, insert_ok, github_tokens, pending_token_requests, pull_requests,
                   pr_reviews, issues_closed, pending_commits, flag, now, last, nreq>>

\* a unit whose report the Telegram API accepts
TaskFinish(i, aifail) == TaskEnd(i, aifail, "200")

-----------------------------------------------------------------------------
(* server.py: /telegram_commands, the token install handshake *)

expiry_minutes == 15

UserRequests(user_id) ==
    SelectSeq(pending_token_requests, LAMBDA r : r.user_id = user_id)

\* a lookup that never looks at the age
request_never_expires(r) == FALSE

\* line 340-341: the age in seconds against expiry_minutes * 60
request_expired(r) == (now - r.created_at) * 60 > expiry_minutes * 60

\* a lookup with ORDER BY created_at ASC: the oldest row of the user
get_oldest_request_by_user(user_id) ==
    LET rows == UserRequests(user_id)
    IN  IF rows = <<>> THEN <<>>
        ELSE IF request_expired(rows[Len(rows)]) THEN <<>>
        ELSE <<rows[1]>>

\* get_pending_request_by_user: the newest row of the user, <<>> when there is
\* none or when it is older than expiry_minutes
get_pending_request_by_user(user_id) ==
    LET rows == UserRequests(user_id)
    IN  IF rows = <<>> THEN <<>>
        ELSE IF request_expired(rows[Len(rows)]) THEN <<>>
        ELSE <<rows[Len(rows)]>>

\* a DELETE that removes no row
clear_nothing(user_id) == pending_token_requests

\* DELETE FROM pending_token_requests WHERE user_id = %s
clear_pending_request_by_user(user_id) ==
    SelectSeq(pending_token_requests, LAMBDA r : r.user_id # user_id)

\* the table after get_pending_request_by_user: an expired newest row takes
\* every row of the user with it (line 342)
pending_after_lookup(user_id) ==
    LET rows == UserRequests(user_id)
    IN  IF rows # <<>> /\ request_expired(rows[Len(rows)])
        THEN clear_pending_request_by_user(user_id)
        ELSE pending_token_requests

\* line 342: the DELETE the lookup issues for an expired row
lookup_did(user_id) ==
    IF pending_after_lookup(user_id) # pending_token_requests THEN {"delete-expired"} ELSE {}

create_pending_request(secret_key, user_id, chat_id) ==
    Append(pending_token_requests,
           [secret_key |-> secret_key, user_id |-> user_id,
            chat_id |-> Str(chat_id), created_at |-> now])

Reply(kind, user_id, chat, text, did) ==
    [Exchange("telegram", 200, kind, chat) EXCEPT !.who = user_id, !.text = text, !.did = did]

Blocked(route, kind) ==
    /\ block_if_maintenance(FALSE)
    /\ last' = Exchange(route, 503, kind, NONE)
    /\ UNCHANGED <<config, insert_ok, log, stores, tasks, sent, flag, now, nreq>>

\* lines 696-705: /start <payload>
start_command(user_id, secret_payload) ==
    IF block_if_maintenance(FALSE) THEN Blocked("telegram", "start")
    ELSE LET target_chat == get_chat_id_from_secret(secret_payload)
         IN  IF ~Truthy(target_chat)
             THEN /\ last' = Reply("start", user_id, NONE, "invalid-link", {"telegram"})
                  /\ UNCHANGED <<config, insert_ok, log, stores, tasks, sent, flag, now, nreq>>
             ELSE /\ Len(pending_token_requests) < MaxPending
                  /\ pending_token_requests' =
                        create_pending_request(secret_payload, user_id, target_chat)
                  /\ last' = Reply("start", user_id, target_chat, "paste-token", {"telegram"})
                  /\ UNCHANGED <<config, insert_ok, log, github_tokens, project_updates, pull_requests,
                                 pr_reviews, issues_closed, pending_commits, tasks,
                                 sent, flag, now, nreq>>

\* validate_github_token: the user record of a 200, None otherwise
validate_github_token(valid) == IF valid THEN "200" ELSE "401"

\* a handler that clears the request before it looks at the validation
pending_cleared_always(user_id, v) == clear_pending_request_by_user(user_id)

\* lines 770-772: the request is cleared inside the branch of a validated token
pending_after_paste(user_id, v) ==
    IF v THEN clear_pending_request_by_user(user_id) ELSE pending_token_requests

\* lines 763-781: a private message that looks like a token
token_paste(user_id, text, valid) ==
    IF block_if_maintenance(FALSE) THEN Blocked("telegram", "token")
    ELSE LET pending == get_pending_request_by_user(user_id)
             call == [token |-> text, answer |-> validate_github_token(valid)]
         IN  IF pending = <<>>
             THEN /\ pending_token_requests' = pending_after_lookup(user_id)
                  /\ last' = Reply("token", user_id, NONE, "no-pending",
                                   lookup_did(user_id) \cup {"telegram"})
                  /\ UNCHANGED <<config, insert_ok, log, github_tokens, project_updates, pull_requests,
                                 pr_reviews, issues_closed, pending_commits, tasks,
                                 sent, flag, now, nreq>>
             ELSE IF valid
             THEN /\ github_tokens' = save_encrypted_token_for_chat(
                                         pending[1].chat_id, text, Username(user_id))
                  /\ pending_token_requests' = pending_after_paste(user_id, valid)
                  /\ last' = [Reply("token", user_id, pending[1].chat_id, "saved",
                                    {"validate", "telegram"} \cup
                                    (IF TokenRows(pending[1].chat_id) # {}
                                     THEN {"overwrite"} ELSE {}) \cup
                                    (IF \E k \in DOMAIN UserRequests(user_id) :
                                           UserRequests(user_id)[k].chat_id # pending[1].chat_id
                                     THEN {"superseded"} ELSE {}))
                              EXCEPT !.upstream = call]
                  /\ UNCHANGED <<config, insert_ok, log, project_updates, pull_requests, pr_reviews,
                                 issues_closed, pending_commits, tasks, sent, flag,
                                 now, nreq>>
             ELSE /\ pending_token_requests' = pending_after_paste(user_id, valid)
                  /\ last' = [Reply("token", user_id, pending[1].chat_id,
                                    "validation-failed", {"validate", "telegram"})
                              EXCEPT !.upstream = call]
                  /\ UNCHANGED <<config, insert_ok, log, github_tokens, project_updates, pull_requests,
                                 pr_reviews, issues_closed, pending_commits, tasks,
                                 sent, flag, now, nreq>>

\* lines 769-778: a validated token whose save_encrypted_token_for_chat returns
\* False (no FERNET_KEY, no connection, or the INSERT raised)
token_paste_unsaved(user_id, text) ==
    /\ ~block_if_maintenance(FALSE)
    /\ get_pending_request_by_user(user_id) # <<>>
    /\ LET pending == get_pending_request_by_user(user_id)
       IN  /\ pending_token_requests' = pending_after_paste(user_id, TRUE)
           /\ last' = [Reply("token", user_id, pending[1].chat_id, "save-failed",
                             {"validate", "telegram"})
                          EXCEPT !.upstream = [token |-> text,
                                               answer |-> validate_github_token(TRUE)]]
    /\ UNCHANGED <<config, insert_ok, log, github_tokens, project_updates, pull_requests,
                   pr_reviews, issues_closed, pending_commits, tasks,
                   sent, flag, now, nreq>>

\* SELECT secret_key FROM webhooks WHERE chat_id = %s
get_secret_from_chat_id(chat_id) ==
    IF \E w \in webhooks : w.chat_id = Str(chat_id)
    THEN (CHOOSE w \in webhooks : w.chat_id = Str(chat_id)).secret_key
    ELSE NONE

\* an INSERT into a table without PRIMARY KEY and UNIQUE
save_without_constraints(chat_id, secret_key) ==
    webhooks \cup {[secret_key |-> secret_key, chat_id |-> Str(chat_id)]}

\* INSERT ... ON CONFLICT (chat_id) DO UPDATE SET secret_key: a secret_key that
\* another chat holds violates the PRIMARY KEY, and the exception is printed
save_webhook_config(chat_id, secret_key) ==
    IF \E w \in webhooks : w.secret_key = secret_key /\ w.chat_id # Str(chat_id)
    THEN webhooks
    ELSE {w \in webhooks : w.chat_id # Str(chat_id)}
            \cup {[secret_key |-> secret_key, chat_id |-> Str(chat_id)]}

\* lines 716-730: /gitsync in chat chat_id; new_key is the uuid4 drawn, and the
\* reply carries it in the webhook URL whatever the table did
gitsync_command(chat_id, new_key) ==
    IF block_if_maintenance(FALSE) THEN Blocked("telegram", "gitsync")
    ELSE /\ webhooks' = save_webhook_config(chat_id, new_key)
         /\ last' = Reply("gitsync", NONE, chat_id, new_key, {"telegram"})
         /\ UNCHANGED <<hooked, ADMIN_KEY, insert_ok, log, stores, tasks, sent, flag,
                        now, nreq>>

\* lines 748-761: /remove_github_token in a private chat
remove_command(user_id) ==
    IF block_if_maintenance(FALSE) THEN Blocked("telegram", "remove")
    ELSE LET pending == get_pending_request_by_user(user_id)
         IN  IF pending = <<>>
             THEN /\ pending_token_requests' = pending_after_lookup(user_id)
                  /\ last' = Reply("remove", user_id, NONE, "click-setup-link-first",
                                   lookup_did(user_id) \cup {"telegram"})
                  /\ UNCHANGED <<config, insert_ok, log, github_tokens, project_updates, pull_requests,
                                 pr_reviews, issues_closed, pending_commits, tasks,
                                 sent, flag, now, nreq>>
             ELSE /\ github_tokens' = remove_token_for_chat(pending[1].chat_id)
                  /\ pending_token_requests' = clear_pending_request_by_user(user_id)
                  /\ last' = Reply("remove", user_id, pending[1].chat_id, "removed", {"telegram"})
                  /\ UNCHANGED <<config, insert_ok, log, project_updates, pull_requests, pr_reviews,
                                 issues_closed, pending_commits, tasks, sent, flag,
                                 now, nreq>>

\* time passes
Tick(d) ==
    /\ now + d <= MaxNow
    /\ now' = now + d
    /\ UNCHANGED <<config, insert_ok, log, stores, tasks, sent, flag, last, nreq>>

-----------------------------------------------------------------------------
(* The flush callback handed to register_admin_routes.  maintenance.py calls  *)
(* it as on_disable_flush_callback(app, chat_id=...) and expects (sent,       *)
(* failed, msg); its body follows the design document, sections 4.3 and 3.    *)

FlushBatch == 2

on_disable_flush_callback == TRUE

PendingEvent(chat_id, author, raw) == [chat_id |-> chat_id, author |-> author, raw |-> raw]

\* the first FlushBatch positions of the queue that the tenant filter selects
flush_batch(queue, chat_filter) ==
    LET match == {k \in DOMAIN queue : chat_filter = NONE \/ queue[k].chat_id = chat_filter}
    IN  {k \in match : Cardinality({j \in match : j < k}) < FlushBatch}

\* the selected entries a flush does not read because the batch is full
flush_left(queue, chat_filter) ==
    Cardinality({k \in DOMAIN queue : chat_filter = NONE \/ queue[k].chat_id = chat_filter}
                \ flush_batch(queue, chat_filter))

\* one reconstructed event through the processing path of live events
\* (compare, revocation on an authorization failure, rows, notification)
flush_process(st, e, answer, files) ==
    LET t0 == Task(e.chat_id, e.author, e.raw)
        rows == {r \in st.tokens : r.chat_id = Str(e.chat_id)}
        token == IF rows = {} THEN NONE ELSE (CHOOSE r \in rows : TRUE).token
        creator == IF rows = {} THEN NONE ELSE (CHOOSE r \in rows : TRUE).created_by
        err == IF compare_attempted(e.raw) THEN compare_err(token, answer) ELSE NONE
        exact == compare_attempted(e.raw) /\ err = NONE
        t == [t0 EXCEPT !.err = err, !.files = IF exact THEN files ELSE {}]
        tag == confidence_tag(err)
    IN  IF e.raw.json # "object" THEN st
        ELSE IF exact
        THEN [st EXCEPT !.updates = save_to_db(@, <<exact_row(t, {})>>),
                        !.log = @ \o save_to_db_prints(<<exact_row(t, {})>>),
                        !.outbox = send_to_telegram(@, e.chat_id, "flush", "exact",
                                       <<[commit |-> "push", confidence |-> "exact"]>>)]
        ELSE [st EXCEPT !.tokens = IF auth_failed(err) THEN @ \ rows ELSE @,
                        !.updates = save_to_db(@, fallback_rows(t, {})),
                        !.log = @ \o save_to_db_prints(fallback_rows(t, {})),
                        !.outbox =
                            LET o == IF auth_failed(err)
                                     THEN mark_token_invalid_sent(@, e.chat_id, creator)
                                     ELSE @
                            IN  IF fallback_updates(t, tag) = <<>> THEN o
                                ELSE send_to_telegram(o, e.chat_id, "flush", "report",
                                                      fallback_updates(t, tag))]

\* a processed entry is counted as sent but stays in the queue
flush_done_keep(st, e) == [st EXCEPT !.sent = @ + 1, !.keep = Append(@, e)]

\* a processed entry is counted as sent and deleted from the queue
flush_done(st, e) == [st EXCEPT !.sent = @ + 1]

RECURSIVE flush_from_drop_failed(_, _, _, _, _, _)
\* an entry whose reconstruction throws is counted as failed and deleted
flush_from_drop_failed(st, queue, batch, k, answer, files) ==
    IF k > Len(queue) THEN st
    ELSE IF k \notin batch
    THEN flush_from_drop_failed([st EXCEPT !.keep = Append(@, queue[k])],
                                queue, batch, k + 1, answer, files)
    ELSE IF queue[k].raw.json = "malformed"
    THEN flush_from_drop_failed([st EXCEPT !.failed = @ + 1],
                                queue, batch, k + 1, answer, files)
    ELSE flush_from_drop_failed(flush_done(flush_process(st, queue[k], answer, files),
                                           queue[k]),
                                queue, batch, k + 1, answer, files)

RECURSIVE flush_from(_, _, _, _, _, _)
\* the batch in queue order, from position k on: an entry whose reconstruction
\* throws is counted as failed and kept, every other one is processed and deleted
flush_from(st, queue, batch, k, answer, files) ==
    IF k > Len(queue) THEN st
    ELSE IF k \notin batch
    THEN flush_from([st EXCEPT !.keep = Append(@, queue[k])], queue, batch, k + 1, answer, files)
    ELSE IF queue[k].raw.json = "malformed"
    THEN flush_from([st EXCEPT !.keep = Append(@, queue[k]), !.failed = @ + 1],
                    queue, batch, k + 1, answer, files)
    ELSE flush_from(flush_done(flush_process(st, queue[k], answer, files), queue[k]),
                    queue, batch, k + 1, answer, files)

flush_pending_callback(chat_filter, answer, files) ==
    flush_from([tokens |-> github_tokens, updates |-> project_updates, outbox |-> sent,
                keep |-> <<>>, sent |-> 0, failed |-> 0, log |-> log],
               pending_commits, flush_batch(pending_commits, chat_filter), 1, answer, files)

\* the callback raises after it has processed n entries of its batch
flush_raised(chat_filter, n, answer, files) ==
    LET batch == flush_batch(pending_commits, chat_filter)
        done == {k \in batch : Cardinality({j \in batch : j < k}) < n}
    IN  flush_from([tokens |-> github_tokens, updates |-> project_updates, outbox |-> sent,
                    keep |-> <<>>, sent |-> 0, failed |-> 0, log |-> log],
                   pending_commits, done, 1, answer, files)

-----------------------------------------------------------------------------
(* maintenance.py: the admin routes *)

\* the check passes whenever no ADMIN_KEY is configured
open_without_admin_key(key) == ~Truthy(ADMIN_KEY) \/ key = ADMIN_KEY

\* require_admin_key, line 45
require_admin_key(key) == ~(~Truthy(ADMIN_KEY) \/ key # ADMIN_KEY)

AdminExchange(route, status, kind, chat, text) ==
    [Exchange(route, status, kind, chat) EXCEPT !.text = text]

\* the exchange ran the flush callback to its end
FlushExchange(ex) == ex.status = 200 /\ ex.text \in {"Flush completed", "DISABLED auto-flush"}

\* the state after a flush that returned
Flushed(route, kind, chat_filter, text, answer, files) ==
    LET f == flush_pending_callback(chat_filter, answer, files)
    IN  /\ github_tokens' = f.tokens
        /\ project_updates' = f.updates
        /\ sent' = f.outbox
        /\ pending_commits' = f.keep
        /\ log' = f.log
        /\ last' = [AdminExchange(route, 200, kind, chat_filter, text)
                        EXCEPT !.key = ADMIN_KEY,     \* only this key gets here
                               !.auto_flush = IF route = "admin" THEN "1" ELSE NONE,
                               !.counts = <<f.sent, f.failed>>,
                               !.left = flush_left(pending_commits, chat_filter),
                               !.wrote = Len(f.updates) - Len(project_updates),
                               !.before = IF FlushExchange(last) /\ last.chat = chat_filter
                                          THEN [again |-> TRUE, counts |-> last.counts,
                                                left |-> last.left]
                                          ELSE NoFlush]

\* /_admin/flush_pending
_flush_pending(key, flush_chat, answer, files) ==
    IF block_if_maintenance(TRUE)
    THEN /\ last' = [AdminExchange("flush", 503, "flush", flush_chat, "") EXCEPT !.key = key]
         /\ UNCHANGED <<config, insert_ok, log, stores, tasks, sent, flag, now, nreq>>
    ELSE IF ~require_admin_key(key)
    THEN /\ last' = [AdminExchange("flush", 401, "flush", flush_chat, "Unauthorized")
                        EXCEPT !.key = key]
         /\ UNCHANGED <<config, insert_ok, log, stores, tasks, sent, flag, now, nreq>>
    ELSE IF ~on_disable_flush_callback
    THEN /\ last' = [AdminExchange("flush", 400, "flush", flush_chat, "no-callback")
                        EXCEPT !.key = key]
         /\ UNCHANGED <<config, insert_ok, log, stores, tasks, sent, flag, now, nreq>>
    ELSE /\ Flushed("flush", "flush", flush_chat, "Flush completed", answer, files)
         /\ UNCHANGED <<config, insert_ok, pending_token_requests, pull_requests, pr_reviews,
                        issues_closed, tasks, flag, now, nreq>>

\* the parameter is compared as it was sent
mode_as_sent(mode) == mode

\* line 84: (request.args.get("mode") or "").lower()
mode_lower(mode) ==
    IF mode = NONE THEN ""
    ELSE IF mode \in {"on", "ON", "On"} THEN "on"
    ELSE IF mode \in {"off", "OFF", "Off"} THEN "off"
    ELSE mode

\* enable_maintenance / disable_maintenance, lines 19-37: True unless the
\* file operation raises; fs_ok: the flag file can be written / removed
\* (disable_maintenance removes nothing, and so cannot fail, without a file)
file_op_ok(mode, fs_ok) == fs_ok \/ (mode = "off" /\ ~flag)

\* the flag file after the operation
flag_after(mode, fs_ok) == IF file_op_ok(mode, fs_ok) THEN mode = "on" ELSE flag

\* the result of the file operation is not looked at
failure_ignored(ok) == FALSE

\* lines 87-90, 93-95: "if ok ... else 500", "if not ok: return ... 500"
reports_failure(ok) == ~ok

\* the exchange of the maintenance route; auto_flush is recorded where the
\* handler reads it (line 97, the "off" branch)
ToggleExchange(status, key, mode_sent, auto_flush, flush_chat, text) ==
    [AdminExchange("admin", status, mode_sent, flush_chat, text)
        EXCEPT !.key = key,
               !.auto_flush = IF mode_lower(mode_sent) = "off" THEN auto_flush ELSE NONE]

\* /_admin/maintenance
_toggle_maintenance(key, mode_sent, auto_flush, flush_chat, fs_ok, answer, files) ==
    LET mode == mode_lower(mode_sent)
        ex(status, text) == ToggleExchange(status, key, mode_sent, auto_flush, flush_chat, text)
    IN  IF block_if_maintenance(TRUE)
        THEN /\ last' = ex(503, "")
             /\ UNCHANGED <<config, insert_ok, log, stores, tasks, sent, flag, now, nreq>>
        ELSE IF ~require_admin_key(key)
        THEN /\ last' = ex(401, "Unauthorized")
             /\ UNCHANGED <<config, insert_ok, log, stores, tasks, sent, flag, now, nreq>>
        ELSE IF mode \in {"on", "off"} /\ reports_failure(file_op_ok(mode, fs_ok))
        THEN /\ flag' = flag_after(mode, fs_ok)
             /\ last' = ex(500, "failed")
             /\ UNCHANGED <<config, insert_ok, log, stores, tasks, sent, now, nreq>>
        ELSE IF mode = "on"
        THEN /\ flag' = flag_after(mode, fs_ok)
             /\ last' = ex(200, "ENABLED")
             /\ UNCHANGED <<config, insert_ok, log, stores, tasks, sent, now, nreq>>
        ELSE IF mode = "off" /\ auto_flush = "1" /\ on_disable_flush_callback
        THEN /\ flag' = flag_after(mode, fs_ok)
             /\ Flushed("admin", mode_sent, flush_chat, "DISABLED auto-flush", answer, files)
             /\ UNCHANGED <<config, insert_ok, pending_token_requests, pull_requests,
                            pr_reviews, issues_closed, tasks, now, nreq>>
        ELSE IF mode = "off"
        THEN /\ flag' = flag_after(mode, fs_ok)
             /\ last' = ex(200, "DISABLED")
             /\ UNCHANGED <<config, insert_ok, log, stores, tasks, sent, now, nreq>>
        ELSE /\ last' = ex(200, IF is_maintenance_enabled THEN "ON" ELSE "OFF")
             /\ UNCHANGED <<config, insert_ok, log, stores, tasks, sent, flag, now, nreq>>

\* /_admin/maintenance?mode=off&auto_flush=1 when the callback raises after n
\* entries: lines 102-104, the error is logged and the answer is 200
_toggle_maintenance_flush_raises(key, flush_chat, fs_ok, n, answer, files) ==
    /\ ~block_if_maintenance(TRUE)
    /\ require_admin_key(key)
    /\ ~reports_failure(file_op_ok("off", fs_ok))
    /\ on_disable_flush_callback
    /\ n <= Cardinality(flush_batch(pending_commits, flush_chat))
    /\ LET f == flush_raised(flush_chat, n, answer, files)
       IN  /\ flag' = flag_after("off", fs_ok)
           /\ github_tokens' = f.tokens
           /\ project_updates' = f.updates
           /\ sent' = f.outbox
           /\ pending_commits' = f.keep
           /\ log' = Append(f.log, "auto-flush")
           /\ last' = [ToggleExchange(200, key, "off", "1", flush_chat,
                                      "DISABLED auto-flush failed")
                          EXCEPT !.wrote = Len(f.updates) - Len(project_updates)]
    /\ UNCHANGED <<config, insert_ok, pending_token_requests, pull_requests,
                   pr_reviews, issues_closed, tasks, now, nreq>>

-----------------------------------------------------------------------------
(* Exact fractions <<numerator, denominator>>, denominator positive, in      *)
(* lowest terms: the leaderboard's divisions and sums are carried without    *)
(* rounding until round(score * 100, 2)                                      *)

RECURSIVE GCD(_, _)
GCD(a, b) == IF b = 0 THEN a ELSE GCD(b, a % b)

Rat(n, d) ==
    IF n = 0 THEN <<0, 1>>
    ELSE LET g == GCD(IF n < 0 THEN -n ELSE n, d) IN <<n \div g, d \div g>>
RZero == <<0, 1>>
ROne == <<1, 1>>
RAdd(x, y) == Rat(x[1] * y[2] + y[1] * x[2], x[2] * y[2])
RSub(x, y) == Rat(x[1] * y[2] - y[1] * x[2], x[2] * y[2])
RScale(k, x) == Rat(k * x[1], x[2])
RDiv(x, y) == Rat(x[1] * y[2], x[2] * y[1])
RLeq(x, y) == x[1] * y[2] <= y[1] * x[2]
RLess(x, y) == x[1] * y[2] < y[1] * x[2]
RMax(S) == CHOOSE x \in S : \A y \in S : RLeq(y, x)

\* Python's None for a value that is otherwise a fraction
None == <<>>
Some(x) == <<x>>

\* dict.get(a, default)
Get(f, a, default) == IF a \in DOMAIN f THEN f[a] ELSE default

-----------------------------------------------------------------------------
(* server.py: /dashboard, the leaderboard (section 9 of the handler).  Times *)
(* are minutes from period_start, the start of the current week; every row   *)
(* of project_updates is taken to be inside the window, and ci_results, which *)
(* no code writes, is empty.                                                 *)

\* line 972
period_start == 0

\* lines 974-979: merged pull requests per author, of every tenant
merged_rows ==
    LET rows == {p \in pull_requests : p.merged /\ p.merged_at >= period_start}
    IN  [a \in {p.author : p \in rows} |-> Cardinality({p \in rows : p.author = a})]

\* the rows of pr_reviews JOIN pull_requests submitted inside the window
joined_reviews ==
    {r \in pr_reviews : /\ \E p \in pull_requests : p.id = r.pr_id
                        /\ r.submitted_at >= period_start}

\* lines 981-988: reviews and approvals per reviewer, of every tenant
review_rows ==
    [a \in {r.reviewer : r \in joined_reviews} |->
        [reviews_done |-> Cardinality({r \in joined_reviews : r.reviewer = a}),
         approvals |-> Cardinality({r \in joined_reviews :
                                       r.reviewer = a /\ r.state = "APPROVED"})]]

\* lines 990-996: issues per closer, of every tenant (the table has no tenant)
issue_rows ==
    LET rows == {i \in issues_closed : i.closed_at >= period_start}
    IN  [a \in {i.closed_by : i \in rows} |->
            [issues_closed |-> Cardinality({i \in rows : i.closed_by = a})]]

\* AVG over a set of rows of the integer f[row]
Avg(rows, f) == Rat(SumOver(rows, f), Cardinality(rows))

\* lines 998-1007: per author the mean time from opening to the first review
first_review_rows ==
    LET first_review_at(p) ==
            CHOOSE t \in {r.submitted_at : r \in {q \in pr_reviews : q.pr_id = p.id}} :
                \A r \in {q \in pr_reviews : q.pr_id = p.id} : t <= r.submitted_at
        rows == {p \in pull_requests : /\ \E r \in pr_reviews : r.pr_id = p.id
                                       /\ p.created_at >= period_start}
    IN  [a \in {p.author : p \in rows} |->
            Avg({p \in rows : p.author = a},
                [p \in rows |-> first_review_at(p) - p.created_at])]

\* lines 1009-1014: per author the mean time from opening to merging
merge_time_rows ==
    LET rows == {p \in pull_requests : p.merged /\ p.created_at >= period_start}
    IN  [a \in {p.author : p \in rows} |->
            Avg({p \in rows : p.author = a}, [p \in rows |-> p.merged_at - p.created_at])]

\* lines 1016-1024: per author of a pull request the passed and all CI results
ci_rows ==
    LET rows == {p \in pull_requests : p.created_at >= period_start}
    IN  [a \in {p.author : p \in rows} |-> [passed |-> 0, total |-> 0]]

\* lines 1026-1032: reviews of somebody else's pull request; NULL <> x is not true
cross_rows ==
    LET rows == {r \in joined_reviews :
                    \E p \in pull_requests : /\ p.id = r.pr_id
                                             /\ r.reviewer # NONE /\ p.author # NONE
                                             /\ r.reviewer # p.author}
    IN  [a \in {r.reviewer : r \in rows} |-> Cardinality({r \in rows : r.reviewer = a})]

\* lines 1034-1040: commits and files changed per author, of this tenant only
commit_stats(chat) ==
    LET idx == {i \in DOMAIN project_updates : project_updates[i].chat_id = Str(chat)}
        of(a) == {i \in idx : project_updates[i].author = a}
    IN  [a \in {project_updates[i].author : i \in idx} |->
            [commits |-> Cardinality(of(a)),
             files_changed |-> SumOver(of(a),
                 [i \in idx |-> project_updates[i].files_added
                                + project_updates[i].files_modified
                                + project_updates[i].files_removed])]]

\* line 1042
authors(chat) ==
    DOMAIN merged_rows \cup DOMAIN review_rows \cup DOMAIN issue_rows
    \cup DOMAIN first_review_rows \cup DOMAIN merge_time_rows \cup DOMAIN ci_rows
    \cup DOMAIN cross_rows \cup DOMAIN commit_stats(chat)

Max(a, b) == IF a >= b THEN a ELSE b

\* lines 1046-1058: the metrics of one author
author_metrics(chat, a) ==
    [merged_prs |-> Get(merged_rows, a, 0),
     reviews_done |-> Get(review_rows, a, [reviews_done |-> 0]).reviews_done,
     issues_closed |-> Get(issue_rows, a, [issues_closed |-> 0]).issues_closed,
     avg_first_review_secs |-> IF a \in DOMAIN first_review_rows
                               THEN Some(first_review_rows[a]) ELSE None,
     avg_merge_secs |-> IF a \in DOMAIN merge_time_rows
                        THEN Some(merge_time_rows[a]) ELSE None,
     ci_pass_rate |-> IF a \in DOMAIN ci_rows
                      THEN Some(Rat(ci_rows[a].passed, Max(1, ci_rows[a].total)))
                      ELSE None,
     cross_reviews |-> Get(cross_rows, a, 0),
     commits |-> Get(commit_stats(chat), a, [commits |-> 0]).commits,
     files_changed |-> Get(commit_stats(chat), a, [files_changed |-> 0]).files_changed]

RECURSIVE metrics_of(_, _)
\* lines 1044-1045: metrics = {}; for a in authors: metrics[a] = {...}
metrics_of(chat, S) ==
    IF S = {} THEN <<>>
    ELSE LET a == CHOOSE x \in S : TRUE
         IN  (a :> author_metrics(chat, a)) @@ metrics_of(chat, S \ {a})

\* the dict metrics of a dashboard request for chat
metrics(chat) == metrics_of(chat, authors(chat))

\* a normalisation that divides by the sum instead of the maximum
normalize_by_sum(vals) ==
    LET total == SumOver(DOMAIN vals, [k \in DOMAIN vals |-> vals[k][1]])
    IN  [k \in DOMAIN vals |-> IF total = 0 THEN RZero ELSE Rat(vals[k][1], total)]

\* lines 1060-1066
normalize_map(vals) ==
    IF DOMAIN vals = {} THEN vals
    ELSE LET maxv == RMax({vals[k] : k \in DOMAIN vals})
         IN  IF maxv = RZero THEN [k \in DOMAIN vals |-> RZero]
             ELSE [k \in DOMAIN vals |-> RDiv(vals[k], maxv)]

\* x if x else None: a fraction that is zero is falsy
truthy_or_none(x) == IF x = None \/ x = Some(RZero) THEN None ELSE x

\* lines 1068-1076
count_map(m, field) == [a \in DOMAIN m |-> Rat(m[a][field], 1)]
first_review_map(m) == [a \in DOMAIN m |-> truthy_or_none(m[a].avg_first_review_secs)]
merge_time_map(m) == [a \in DOMAIN m |-> truthy_or_none(m[a].avg_merge_secs)]
ci_map(m) ==
    [a \in DOMAIN m |-> IF m[a].ci_pass_rate # None THEN m[a].ci_pass_rate[1] ELSE RZero]

\* lines 1086-1100
normalize_time_map(time_map) ==
    LET filtered == {k \in DOMAIN time_map : time_map[k] # None}
    IN  IF filtered = {} THEN [k \in DOMAIN time_map |-> RZero]
        ELSE LET maxv == RMax({time_map[k][1] : k \in filtered})
             IN  IF maxv = RZero THEN [k \in filtered |-> ROne]
                 ELSE [k \in DOMAIN time_map |->
                          IF time_map[k] = None THEN RZero
                          ELSE RSub(ROne, RDiv(time_map[k][1], maxv))]

\* weights that leave merged pull requests out
weights_without_merged ==
    [merged_prs |-> 0, reviews |-> 15, issues |-> 10, commits |-> 15, files |-> 10,
     first_review_speed |-> 8, merge_speed |-> 7, ci |-> 10, cross_reviews |-> 5]

\* weights that count commits twice
weights_heavy ==
    [merged_prs |-> 20, reviews |-> 15, issues |-> 10, commits |-> 30, files |-> 10,
     first_review_speed |-> 8, merge_speed |-> 7, ci |-> 10, cross_reviews |-> 5]

\* lines 1105-1115, in hundredths
weights ==
    [merged_prs |-> 20, reviews |-> 15, issues |-> 10, commits |-> 15, files |-> 10,
     first_review_speed |-> 8, merge_speed |-> 7, ci |-> 10, cross_reviews |-> 5]

\* lines 1078-1084, 1102-1103: the nine normalised maps
normalized(m) ==
    [merged_prs |-> normalize_map(count_map(m, "merged_prs")),
     reviews |-> normalize_map(count_map(m, "reviews_done")),
     issues |-> normalize_map(count_map(m, "issues_closed")),
     commits |-> normalize_map(count_map(m, "commits")),
     files |-> normalize_map(count_map(m, "files_changed")),
     first_review_speed |-> normalize_time_map(first_review_map(m)),
     merge_speed |-> normalize_time_map(merge_time_map(m)),
     ci |-> normalize_map(ci_map(m)),
     cross_reviews |-> normalize_map(count_map(m, "cross_reviews"))]

MetricNames ==
    <<"merged_prs", "reviews", "issues", "commits", "files", "first_review_speed",
      "merge_speed", "ci", "cross_reviews">>

\* the nine normalised values of one author, n_x.get(a, 0.0)
parts(n, a) == [m \in Range(MetricNames) |-> Get(n[m], a, RZero)]

RECURSIVE weighted_sum(_, _)
\* lines 1119-1128: score += weights[..] * n_..get(a, 0.0), the first k terms
weighted_sum(part, k) ==
    IF k = 0 THEN RZero
    ELSE RAdd(weighted_sum(part, k - 1),
              RScale(weights[MetricNames[k]], part[MetricNames[k]]))

\* score * 100 of one author
score100(part) == weighted_sum(part, Len(MetricNames))

\* round(x, 2) in hundredths: the nearest, a half to the even one
round2(x) ==
    LET n == 100 * x[1]
        q == n \div x[2]
        r == n % x[2]
    IN  IF 2 * r > x[2] THEN q + 1
        ELSE IF 2 * r = x[2] THEN q + (q % 2)
        ELSE q

\* Python's order of author names
NameOrder == <<"alice", "bob", "carol">>
NameRank(x) ==
    IF x \in Range(NameOrder) THEN CHOOSE i \in DOMAIN NameOrder : NameOrder[i] = x ELSE 0

\* line 1118, sorted(authors): None and str do not compare
sorted_raises(S) == NONE \in S /\ S # {NONE}

RECURSIVE sorted(_)
sorted(S) ==
    IF S = {} THEN <<>>
    ELSE LET m == CHOOSE x \in S : \A y \in S : NameRank(x) <= NameRank(y)
         IN  <<m>> \o sorted(S \ {m})

\* a sort that puts the lowest score first
RECURSIVE sort_ascending(_)
sort_ascending(rows) ==
    IF rows = <<>> THEN <<>>
    ELSE LET i == CHOOSE j \in DOMAIN rows :
                      /\ \A k \in DOMAIN rows : rows[j].score <= rows[k].score
                      /\ \A k \in 1..(j - 1) : rows[k].score # rows[j].score
         IN  <<rows[i]>> \o sort_ascending(RemoveAt(rows, i))

RECURSIVE sort_by_score(_)
\* line 1141, list.sort(key=score, reverse=True): stable, equal scores keep their order
sort_by_score(rows) ==
    IF rows = <<>> THEN <<>>
    ELSE LET i == CHOOSE j \in DOMAIN rows :
                      /\ \A k \in DOMAIN rows : rows[k].score <= rows[j].score
                      /\ \A k \in 1..(j - 1) : rows[k].score # rows[j].score
         IN  <<rows[i]>> \o sort_by_score(RemoveAt(rows, i))

\* lines 1117-1141: one entry per author; part and exact are the values the
\* score was rounded from
leaderboard(chat) ==
    LET m == metrics(chat)
        names == sorted(DOMAIN m)
        n == normalized(m)
        entry(a) == LET part == parts(n, a)
                        exact == score100(part)
                    IN  [name |-> a,
                         score |-> round2(exact),
                         commits |-> m[a].commits,
                         files_changed |-> m[a].files_changed,
                         merged_prs |-> m[a].merged_prs,
                         reviews_done |-> m[a].reviews_done,
                         issues_closed |-> m[a].issues_closed,
                         ci_pass_rate |-> m[a].ci_pass_rate,
                         part |-> part,
                         exact |-> exact]
    IN  sort_by_score([i \in DOMAIN names |-> entry(names[i])])

\* lines 786-800, 1195-1213: GET /dashboard?key=...
dashboard(key) ==
    IF block_if_maintenance(FALSE) THEN Blocked("dashboard", "get")
    ELSE LET target_chat_id == get_chat_id_from_secret(key)
         IN  /\ last' = IF ~Truthy(key) \/ ~Truthy(target_chat_id)
                        THEN Exchange("dashboard", 401, "get", NONE)
                        ELSE IF sorted_raises(authors(target_chat_id))
                        THEN AdminExchange("dashboard", 500, "get", target_chat_id,
                                           "Dashboard Error")
                        ELSE [Exchange("dashboard", 200, "get", target_chat_id)
                                 EXCEPT !.board = leaderboard(target_chat_id)]
             /\ UNCHANGED <<config, insert_ok, log, stores, tasks, sent, flag, now, nreq>>

-----------------------------------------------------------------------------
(* Inputs *)

\* (secret_key, chat_id) query parameters: the registered pair, a secret of
\* another tenant, an unknown secret, an unknown secret with the claim "None",
\* and each parameter missing
AuthInputs ==
    {<<"s1", "t1">>, <<"s2", "t1">>, <<"sx", "t1">>, <<"sx", "None">>,
     <<NONE, "t1">>, <<"s1", NONE>>, <<NONE, NONE>>}

KeyInputs == {"adm", "bad", NONE}

\* deliveries: the X-GitHub-Event header and the body
Deliveries ==
    {<<"push", Push("alice", <<c1>>, FALSE)>>,
     <<"push", Push(NOTDICT, <<c1>>, FALSE)>>,
     <<"push", Shape("null")>>,
     <<"push", Shape("array")>>,
     <<"push", Shape("malformed")>>,
     <<"ping", Push(ABSENT, <<>>, FALSE)>>,
     <<"pull_request", PrBody("pr1", "alice", TRUE)>>,
     <<"pull_request", Shape("array")>>,
     <<"pull_request_review", ReviewBody("rv1", "pr1", "bob", "APPROVED")>>,
     <<"issues", IssueBody("is1", "alice", "bob")>>}

TypeOK ==
    /\ flag \in BOOLEAN /\ hooked \in BOOLEAN
    /\ nreq \in 0..MaxRequests
    /\ log \in Seq(LogLines)
    /\ insert_ok \in BOOLEAN
    /\ now \in 0..MaxNow

-----------------------------------------------------------------------------
(* Spec: the webhook route, the worker pool and the gate *)

Init ==
    /\ webhooks = {[secret_key |-> "s1", chat_id |-> "t1"],
                   [secret_key |-> "s2", chat_id |-> "t2"]}
    /\ github_tokens = {}
    /\ pending_token_requests = <<>>
    /\ project_updates = <<>>
    /\ pull_requests = {}
    /\ pr_reviews = {}
    /\ issues_closed = {}
    /\ pending_commits = <<>>
    /\ tasks = <<>>
    /\ sent = <<>>
    /\ flag = FALSE
    /\ hooked \in BOOLEAN
    /\ ADMIN_KEY = "adm"
    /\ now = 0
    /\ last = NoExchange
    /\ nreq = 0
    /\ log = <<>>
    /\ insert_ok = TRUE

Webhook ==
    \E d \in Deliveries, a \in AuthInputs : git_webhook(d[2], a[1], a[2], d[1])

Compare == \E i \in 1..MaxRequests : TaskCompare(i, "200", Files1)

Finish == \E i \in 1..MaxRequests : TaskFinish(i, {})

Toggle ==
    \E mode \in {"on", "off"} :
        _toggle_maintenance("adm", mode, "0", NONE, TRUE, "200", Files1)

Next == Webhook \/ Compare \/ Finish \/ Toggle

Spec == Init /\ [][Next]_vars

-----------------------------------------------------------------------------
(* SpecVault: pushes of one tenant, the worker pool and the handshake *)

PushDeliveries == {<<"push", Push("alice", <<c1, c2>>, TRUE)>>}

InitVault == Init /\ hooked = FALSE

PushWebhook ==
    /\ nreq < MaxPushes
    /\ \E d \in PushDeliveries : git_webhook(d[2], "s1", "t1", d[1])

VaultCompare ==
    \E i \in 1..MaxPushes, answer \in UpstreamAnswers : TaskCompare(i, answer, Files1)

Revoke == \E i \in 1..MaxPushes : TaskRevoke(i)

VaultFinish == \E i \in 1..MaxPushes : TaskFinish(i, {})

\* the operator follows a setup link when no request of theirs is waiting
VaultStart ==
    /\ UserRequests("u1") = <<>>
    /\ \E secret_payload \in {"s1", "s2"} : start_command("u1", secret_payload)

VaultPaste == \E text \in Tokens, valid \in BOOLEAN : token_paste("u1", text, valid)

VaultRemove == remove_command("u1")

NextVault ==
    PushWebhook \/ VaultCompare \/ Revoke \/ VaultFinish \/ VaultStart \/ VaultPaste \/ VaultRemove

SpecVault == InitVault /\ [][NextVault]_vars

-----------------------------------------------------------------------------
(* SpecInstall: the handshake against the clock *)

TickStep == 15

Start == \E u \in Users, secret_payload \in {"s1", "s2", "sx"} : start_command(u, secret_payload)

Paste == \E u \in Users, text \in Tokens, valid \in BOOLEAN : token_paste(u, text, valid)

Remove == \E u \in Users : remove_command(u)

Clock == Tick(TickStep)

NextInstall == Start \/ Paste \/ Remove \/ Clock

SpecInstall == InitVault /\ [][NextInstall]_vars

-----------------------------------------------------------------------------
(* SpecFlush: the admin routes over a Pending Queue found at start *)

QueuePool ==
    {PendingEvent("t1", "alice", Push("alice", <<c1>>, FALSE)),
     PendingEvent("t1", "alice", Shape("malformed")),
     PendingEvent("t1", "alice", Push("alice", <<>>, FALSE)),
     PendingEvent("t2", "bob", Push("bob", <<c2, c3>>, TRUE))}

RECURSIVE SeqsUpTo(_, _)
\* the sequences over S of length at most n
SeqsUpTo(S, n) ==
    IF n = 0 THEN {<<>>}
    ELSE LET shorter == SeqsUpTo(S, n - 1)
         IN  shorter \cup {Append(q, e) : q \in shorter, e \in S}

InitFlush ==
    /\ webhooks = {[secret_key |-> "s1", chat_id |-> "t1"],
                   [secret_key |-> "s2", chat_id |-> "t2"]}
    /\ github_tokens = {[chat_id |-> "t2", token |-> "ghp_a", created_by |-> "u1name"]}
    /\ pending_token_requests = <<>>
    /\ project_updates = <<>>
    /\ pull_requests = {}
    /\ pr_reviews = {}
    /\ issues_closed = {}
    /\ pending_commits \in SeqsUpTo(QueuePool, MaxQueue)
    /\ tasks = <<>>
    /\ sent = <<>>
    /\ flag = TRUE
    /\ hooked = TRUE
    /\ ADMIN_KEY \in {"adm", NONE}
    /\ now = 0
    /\ last = NoExchange
    /\ nreq = 0
    /\ log = <<>>
    /\ insert_ok = TRUE

FlushNow ==
    \E key \in KeyInputs, flush_chat \in {NONE, "t1"}, answer \in {"200", "401"} :
        _flush_pending(key, flush_chat, answer, Files1)

FlushToggle ==
    \E key \in KeyInputs, mode \in {"on", "off", ""}, auto_flush \in {"0", "1"},
       flush_chat \in {NONE, "t1"}, fs_ok \in BOOLEAN :
        _toggle_maintenance(key, mode, auto_flush, flush_chat, fs_ok, "200", Files1)

NextFlush == FlushNow \/ FlushToggle

SpecFlush == InitFlush /\ [][NextFlush]_vars

-----------------------------------------------------------------------------
(* SpecGate: well-formed pushes of tenant t1 while the administrator closes   *)
(* the gate and opens it again with auto_flush=1 for t1                       *)

GatePush == git_webhook(Push("alice", <<c1>>, FALSE), "s1", "t1", "push")

GateToggle ==
    \E m \in {<<"on", "0">>, <<"off", "1">>} :
        _toggle_maintenance("adm", m[1], m[2], "t1", TRUE, "200", Files1)

NextGate == GatePush \/ Compare \/ Finish \/ GateToggle

SpecGate == Init /\ [][NextGate]_vars

-----------------------------------------------------------------------------
(* SpecBoard: the dashboard over tables found at start, each with at most    *)
(* MaxRows rows as the event handlers store them                             *)

MaxRows == 3

PrRow(id, chat, author, created_at, merged, merged_at) ==
    [id |-> id, chat_id |-> chat, author |-> author, merged |-> merged,
     created_at |-> created_at, merged_at |-> merged_at]

\* two pull requests of alice and one of bob merged after 10 minutes, one of
\* bob merged in the minute it was opened, one of another tenant merged after 30
PrPool ==
    {PrRow("pr1", "t1", "alice", 0, TRUE, 10),
     PrRow("pr2", "t1", "alice", 0, TRUE, 10),
     PrRow("pr3", "t1", "bob", 0, TRUE, 10),
     PrRow("pr4", "t1", "bob", 20, TRUE, 20),
     PrRow("pr5", "t2", "carol", 0, TRUE, 30)}

ReviewPool ==
    {[id |-> "rv1", pr_id |-> "pr1", reviewer |-> "bob", state |-> "APPROVED",
      submitted_at |-> 5],
     [id |-> "rv3", pr_id |-> "pr5", reviewer |-> "carol", state |-> "APPROVED",
      submitted_at |-> 0]}

\* an issues payload need not name who closed the issue
IssuePool ==
    {[id |-> "is1", author |-> "bob", closed_by |-> "alice", closed_at |-> 5],
     [id |-> "is2", author |-> "bob", closed_by |-> NONE, closed_at |-> 5]}

UpdateLogs ==
    LET row(chat, author, c) ==
            UpdateRow(chat, author, generate_ai_analysis(c.id, FALSE),
                      c.added, c.modified, c.removed, 0, 0)
    IN  {<<>>,
         <<row("t1", "alice", c1)>>,
         <<row("t1", "alice", c1), row("t1", "bob", c2)>>}

UpTo(S, n) == {T \in SUBSET S : Cardinality(T) <= n}

InitBoard ==
    /\ webhooks = {[secret_key |-> "s1", chat_id |-> "t1"],
                   [secret_key |-> "s2", chat_id |-> "t2"]}
    /\ github_tokens = {}
    /\ pending_token_requests = <<>>
    /\ project_updates \in UpdateLogs
    /\ pull_requests \in UpTo(PrPool, MaxRows)
    /\ pr_reviews \in {R \in UpTo(ReviewPool, MaxRows) :
                          \A r \in R : \E p \in pull_requests : p.id = r.pr_id}
    /\ issues_closed \in UpTo(IssuePool, MaxRows)
    /\ pending_commits = <<>>
    /\ tasks = <<>>
    /\ sent = <<>>
    /\ flag = FALSE
    /\ hooked = FALSE
    /\ ADMIN_KEY = "adm"
    /\ now = 0
    /\ last = NoExchange
    /\ nreq = 0
    /\ log = <<>>
    /\ insert_ok = TRUE

Dashboard == \E key \in {"s1", "s2", "sx", NONE} : dashboard(key)

\* a pull_request, pull_request_review or issues delivery for tenant t2
BoardWebhook ==
    /\ nreq < MaxPushes
    /\ \E d \in {x \in Deliveries : x[1] \in DispatchKinds /\ x[2].json = "object"} :
           git_webhook(d[2], "s2", "t2", d[1])

NextBoard == Dashboard \/ BoardWebhook

SpecBoard == InitBoard /\ [][NextBoard]_vars

-----------------------------------------------------------------------------
(* Steps, as seen from outside *)

AuthErrs == {"auth-failed-401", "auth-failed-403"}

\* the step is a /webhook exchange
WebhookStep == (last' # last \/ nreq' # nreq) /\ last'.route = "webhook"

\* the step ends unit of work i / is any step of unit of work i
UnitEnds(i) == i \in DOMAIN tasks /\ tasks' = RemoveAt(tasks, i)
UnitStep(i) ==
    \/ UnitEnds(i)
    \/ i \in DOMAIN tasks /\ Len(tasks') = Len(tasks) /\ tasks'[i] # tasks[i]

\* the messages the step posts
NewMessages == SubSeq(sent', Len(sent) + 1, Len(sent'))

\* every commit entry of every report the step posts carries the tag
ReportsTagged(tag) ==
    \A k \in DOMAIN NewMessages :
        NewMessages[k].kind = "report" =>
            \A j \in DOMAIN NewMessages[k].items : NewMessages[k].items[j].confidence = tag

RevocationMessages ==
    {k \in DOMAIN NewMessages :
        NewMessages[k].kind \in {"token-invalid-group", "token-invalid-creator"}}

-----------------------------------------------------------------------------
(* Authorization *)

\* C1: a webhook request whose secret does not resolve in the registry to
\* exactly the claimed tenant is answered 401 Unauthorized and produces no
\* Event, no PendingEvent, no unit of work and no notification.  (Stated for
\* the requests that reach the authorization check: the maintenance hook's
\* 503 and the JSON parser's 400 come before it.)
C1_UnauthorizedRejected ==
    [][(WebhookStep /\ ~last'.resolves /\ last'.status \notin {400, 503})
          => /\ last'.status = 401
             /\ UNCHANGED <<project_updates, pull_requests, pr_reviews, issues_closed,
                            pending_commits, tasks, sent>>]_vars

-----------------------------------------------------------------------------
(* Maintenance *)

\* C2: an authenticated event submitted while the flag file exists (gate
\* CLOSED) is answered 200 Accepted, appends exactly one PendingEvent of its
\* tenant to the Pending Queue, and neither writes a row, nor submits a unit
\* of work, nor posts a notification.
C2_QueuedWhileClosed ==
    [][(WebhookStep /\ last'.resolves /\ last'.closed)
          => /\ last'.status = 200
             /\ Len(pending_commits') = Len(pending_commits) + 1
             /\ pending_commits'[Len(pending_commits')].chat_id = last'.chat
             /\ UNCHANGED <<project_updates, pull_requests, pr_reviews, issues_closed,
                            tasks, sent>>]_vars

-----------------------------------------------------------------------------
(* The unit of work and the credential *)

-----------------------------------------------------------------------------
(* The webhook response *)

\* C6: every authenticated request that the maintenance hook lets through is
\* answered 200 Accepted, whatever its body
C6_AlwaysAccepted ==
    (last.route = "webhook" /\ last.resolves /\ ~(hooked /\ last.closed))
        => last.status = 200

\* C7: an authenticated request accepted while the gate is OPEN makes no
\* notifier, summarizer or compare call itself; only units of work post messages
C7_NoCallsOnRequestPath ==
    /\ (last.route = "webhook" /\ last.resolves /\ ~last.closed /\ last.status = 200)
          => last.did \cap {"telegram", "ai", "compare"} = {}
    /\ \A k \in DOMAIN sent : sent[k].by # "request"

\* C8: project_updates holds at most one row per (commit id, tenant), however
\* often the same push payload is delivered
C8_OneRowPerCommit ==
    \A j, k \in DOMAIN project_updates :
        (/\ project_updates[j].chat_id = project_updates[k].chat_id
         /\ project_updates[j].summary.commit = project_updates[k].summary.commit)
            => j = k

-----------------------------------------------------------------------------
(* The credential vault *)

\* C9: github_tokens holds at most one row per tenant, whatever the
\* interleaving of installs, removals and revocations
C9_OneCredentialPerTenant ==
    \A chat \in Tenants : Cardinality({r \in github_tokens : r.chat_id = chat}) <= 1

\* a token was saved over an earlier one and the tenant has exactly one row
C9_Witness ==
    /\ last.kind = "token" /\ last.text = "saved" /\ "overwrite" \in last.did
    /\ Cardinality(TokenRows(last.chat)) = 1

\* C10: a token pasted by a user who has no pending request, or whose newest
\* pending request is more than 15 minutes old, gets the "no pending setup"
\* answer, is not validated, changes no row of github_tokens, and leaves no
\* pending request of that user behind
C10_NoPendingRequest ==
    [][\A u \in Users :
          LET rows == SelectSeq(pending_token_requests, LAMBDA r : r.user_id = u)
              after == SelectSeq(pending_token_requests', LAMBDA r : r.user_id = u)
          IN  (/\ last' # last
               /\ last'.route = "telegram" /\ last'.kind = "token"
               /\ last'.who = u /\ last'.status = 200
               /\ (rows = <<>> \/ now - rows[Len(rows)].created_at > 15))
                  => /\ last'.text = "no-pending"
                     /\ "validate" \notin last'.did
                     /\ github_tokens' = github_tokens
                     /\ after = <<>>]_vars

\* a paste found only an expired request, deleted it and was refused
C10_Witness ==
    /\ last.kind = "token" /\ last.text = "no-pending"
    /\ "delete-expired" \in last.did
    /\ UserRequests(last.who) = <<>>

-----------------------------------------------------------------------------
(* The install handshake *)

\* the step is a pasted token of user u that the handler answered
PasteStep(u) ==
    /\ last' # last
    /\ last'.route = "telegram" /\ last'.kind = "token"
    /\ last'.who = u /\ last'.status = 200

\* the newest pending request of u is no more than 15 minutes old
LiveRequest(u) ==
    LET rows == SelectSeq(pending_token_requests, LAMBDA r : r.user_id = u)
    IN  rows # <<>> /\ now - rows[Len(rows)].created_at <= expiry_minutes

\* the tenant that the newest pending request of u names
RequestedTenant(u) ==
    LET rows == SelectSeq(pending_token_requests, LAMBDA r : r.user_id = u)
    IN  rows[Len(rows)].chat_id

\* C11: a pasted token that upstream validation rejects, from a user with a
\* live pending request, is answered "validation failed" and changes neither
\* pending_token_requests nor github_tokens: the request is still live
C11_ValidationFailedKeepsRequest ==
    [][\A u \in Users :
          (PasteStep(u) /\ LiveRequest(u) /\ last'.upstream.answer # "200")
              => /\ last'.text = "validation-failed"
                 /\ "validate" \in last'.did
                 /\ pending_token_requests' = pending_token_requests
                 /\ github_tokens' = github_tokens]_vars

\* a rejected paste left the user's request in place
C11_Witness ==
    /\ last.kind = "token" /\ last.text = "validation-failed"
    /\ last.upstream.answer = "401"
    /\ get_pending_request_by_user(last.who) # <<>>

RemoveStep(u) ==
    /\ last' # last
    /\ last'.route = "telegram" /\ last'.kind = "remove"
    /\ last'.who = u /\ last'.status = 200

\* C13: /remove_github_token from the user who installed a tenant's credential
\* deletes that credential whether or not the user has a pending request
C13_RevokeUnconditional ==
    [][\A u \in Users :
          (RemoveStep(u) /\ Username(u) # NONE)
              => \A r \in github_tokens :
                     r.created_by = Username(u) => r \notin github_tokens']_vars

-----------------------------------------------------------------------------
(* The leaderboard *)

\* the last exchange is a dashboard that rendered a leaderboard
Rendered == last.route = "dashboard" /\ last.status = 200

\* the entry of author a on the rendered leaderboard
Entry(a) == CHOOSE e \in Range(last.board) : e.name = a

\* C14: of two authors on a rendered leaderboard whose metrics are the same
\* except that one has strictly more merged pull requests, that one has the
\* strictly greater composite score, and its reported score is not lower
C14_MoreMergedScoresHigher ==
    Rendered =>
        LET m == metrics(last.chat)
        IN  \A a, b \in DOMAIN m :
                ( /\ [m[a] EXCEPT !.merged_prs = 0] = [m[b] EXCEPT !.merged_prs = 0]
                  /\ m[a].merged_prs > m[b].merged_prs )
                    => /\ RLess(Entry(b).exact, Entry(a).exact)
                       /\ Entry(b).score <= Entry(a).score

\* two authors differ in merged pull requests only and the one with more leads
C14_Witness ==
    /\ Rendered
    /\ LET m == metrics(last.chat)
       IN  \E a, b \in DOMAIN m :
               /\ [m[a] EXCEPT !.merged_prs = 0] = [m[b] EXCEPT !.merged_prs = 0]
               /\ m[a].merged_prs > m[b].merged_prs /\ m[b].merged_prs > 0
               /\ Entry(a).score > Entry(b).score

\* C15: a rendered leaderboard is in descending order of score, authors with
\* equal scores are in ascending order of name, and computing it again from
\* the same tables gives the same sequence
C15_SortedAndDeterministic ==
    Rendered =>
        /\ \A i, j \in DOMAIN last.board :
              i < j => \/ last.board[i].score > last.board[j].score
                       \/ /\ last.board[i].score = last.board[j].score
                          /\ NameRank(last.board[i].name) < NameRank(last.board[j].name)
        /\ last.board = leaderboard(last.chat)
        /\ {e.name : e \in Range(last.board)} = authors(last.chat)

\* three authors, two of them tied behind or ahead of the third
C15_Witness ==
    /\ Rendered /\ Len(last.board) = 3
    /\ \E i \in 1..2 : last.board[i].score = last.board[i + 1].score
    /\ last.board[1].score > last.board[3].score

\* C16: on a rendered leaderboard every author of the window appears, an
\* author with a defined latency v has 1 - v/max on that metric, max being the
\* largest defined latency (so 1 for a latency of 0), and an author without a
\* defined latency has 0
C16_LatencyNormalized ==
    Rendered =>
        LET m == metrics(last.chat)
            defined(field) == {m[b][field][1] : b \in {c \in DOMAIN m : m[c][field] # None}}
            expected(v, D) ==
                IF v = None THEN RZero
                ELSE IF RMax(D) = RZero THEN ROne
                ELSE RSub(ROne, RDiv(v[1], RMax(D)))
        IN  \A a \in DOMAIN m :
                /\ \E e \in Range(last.board) : e.name = a
                /\ Entry(a).part.merge_speed
                      = expected(m[a].avg_merge_secs, defined("avg_merge_secs"))
                /\ Entry(a).part.first_review_speed
                      = expected(m[a].avg_first_review_secs,
                                 defined("avg_first_review_secs"))

\* the count-like metrics: the normalised map and the field of metrics
CountMetrics ==
    {<<"merged_prs", "merged_prs">>, <<"reviews", "reviews_done">>,
     <<"issues", "issues_closed">>, <<"commits", "commits">>,
     <<"files", "files_changed">>, <<"cross_reviews", "cross_reviews">>}

\* the largest value of a field over the authors of m
MaxCount(m, field) ==
    CHOOSE v \in {m[a][field] : a \in DOMAIN m} : \A b \in DOMAIN m : m[b][field] <= v

\* C17: on a rendered leaderboard every count-like metric of every author is
\* its value divided by the maximum over the authors, lies in [0, 1] and is 1
\* for a positive maximum; it is 0 for every author when the maximum is 0
C17_CountNormalized ==
    Rendered =>
        LET m == metrics(last.chat)
        IN  \A a \in DOMAIN m, c \in CountMetrics :
                LET n == Entry(a).part[c[1]]
                    maxv == MaxCount(m, c[2])
                IN  /\ RLeq(RZero, n) /\ RLeq(n, ROne)
                    /\ maxv = 0 => n = RZero
                    /\ maxv > 0 => n = Rat(m[a][c[2]], maxv)
                    /\ (maxv > 0 /\ m[a][c[2]] = maxv) => n = ROne

\* one metric is 0 for every author, another has a positive maximum that one
\* author holds and another author reaches only in part
C17_Witness ==
    /\ Rendered
    /\ LET m == metrics(last.chat)
       IN  /\ DOMAIN m # {}
           /\ \E c \in CountMetrics : MaxCount(m, c[2]) = 0
           /\ \E c \in CountMetrics, a, b \in DOMAIN m :
                  /\ Entry(a).part[c[1]] = ROne
                  /\ RLess(RZero, Entry(b).part[c[1]])
                  /\ RLess(Entry(b).part[c[1]], ROne)

\* C18: the nine weights add up to 1 (100 hundredths) and every reported
\* score, the composite times 100, lies between 0 and 100 (in hundredths of a
\* point, between 0 and 10000)
C18_WeightsAndRange ==
    /\ SumOver(Range(MetricNames), weights) = 100
    /\ Len(MetricNames) = 9
    /\ Rendered =>
          \A e \in Range(last.board) :
              /\ 0 <= e.score /\ e.score <= 10000
              /\ RLeq(RZero, e.exact) /\ RLeq(e.exact, <<100, 1>>)

\* a leaderboard with an author below 20 and an author above 50
C18_Witness ==
    /\ Rendered
    /\ \E e \in Range(last.board) : e.score < 2000
    /\ \E e \in Range(last.board) : e.score > 5000

\* the authors of the rows that belong to a tenant: its pull requests, the
\* reviews of its pull requests, its commits; an issue row names no tenant
OwnAuthors(chat) ==
    {p.author : p \in {q \in pull_requests : q.chat_id = chat}}
    \cup {r.reviewer : r \in {v \in pr_reviews :
                                 \E p \in pull_requests : p.id = v.pr_id /\ p.chat_id = chat}}
    \cup {i.closed_by : i \in issues_closed}
    \cup {project_updates[i].author :
             i \in {j \in DOMAIN project_updates : project_updates[j].chat_id = chat}}

\* C19: the leaderboard rendered for a tenant lists no author whose rows all
\* belong to another tenant, as it would if it depended on the tenant's own
\* data only
C19_OtherTenantInvisible ==
    Rendered => {e.name : e \in Range(last.board)} \subseteq OwnAuthors(last.chat)

-----------------------------------------------------------------------------
(* Pushes that arrive while the gate is closed *)

\* C20: when a push for t1 arrives while the flag file exists and the next
\* request disables maintenance with auto_flush=1 for t1, the flush reports
\* at least that push as sent and writes its rows
C20_FlushSendsArrivals ==
    [][( /\ last.route = "webhook" /\ last.kind = "push" /\ last.chat = "t1"
         /\ last.resolves /\ last.closed /\ last.status \in {200, 503}
         /\ last'.route = "admin" /\ last'.text = "DISABLED auto-flush"
         /\ last'.chat = "t1" )
          => /\ last'.counts[1] >= 1
             /\ last'.wrote >= 1]_vars

-----------------------------------------------------------------------------
(* SpecUnit: the units of work of the pool and the failures of the services *)
(* they call                                                                 *)

\* a commit object whose id is null
cnull == Commit(NONE, 1, 0, 0)

\* pushes: (secret_key, chat_id, body); without and with the two revisions, and
\* one whose second commit makes the loop raise
UnitDeliveries ==
    {<<"s1", "t1", Push("alice", <<c1, c2>>, FALSE)>>,
     <<"s1", "t1", Push("alice", <<c1, c2>>, TRUE)>>,
     <<"s2", "t2", Push("bob", <<c3, cnull, c1>>, FALSE)>>}

\* both tenants registered; t1 with or without a Credential
InitUnit ==
    /\ webhooks = {[secret_key |-> "s1", chat_id |-> "t1"],
                   [secret_key |-> "s2", chat_id |-> "t2"]}
    /\ github_tokens \in {{}, {[chat_id |-> "t1", token |-> "ghp_a",
                                 created_by |-> "u1name"]}}
    /\ pending_token_requests = <<>>
    /\ project_updates = <<>>
    /\ pull_requests = {}
    /\ pr_reviews = {}
    /\ issues_closed = {}
    /\ pending_commits = <<>>
    /\ tasks = <<>>
    /\ sent = <<>>
    /\ flag = FALSE
    /\ hooked = FALSE
    /\ ADMIN_KEY = "adm"
    /\ now = 0
    /\ last = NoExchange
    /\ nreq = 0
    /\ log = <<>>
    /\ insert_ok = TRUE

UnitWebhook == \E d \in UnitDeliveries : git_webhook(d[3], d[1], d[2], "push")

UnitCompare ==
    \E i \in 1..MaxRequests, answer \in {"200", "500", "timeout"},
       files \in {Files1, Files2} :
        TaskCompare(i, answer, files)

UnitEnd ==
    \E i \in 1..MaxRequests, aifail \in SUBSET (1..3), tg \in TelegramAnswers :
        TaskEnd(i, aifail, tg)

NextUnit == UnitWebhook \/ UnitCompare \/ UnitEnd

SpecUnit == InitUnit /\ [][NextUnit]_vars

\* the lines the step prints
NewLines == SubSeq(log', Len(log) + 1, Len(log'))

\* the rows the step appends
NewRows == SubSeq(project_updates', Len(project_updates) + 1, Len(project_updates'))

\* the confidence a row of project_updates records: the table has no such
\* column (lines 68-83) and save_to_db takes no such argument (line 180)
row_confidence(row) == IF "confidence" \in DOMAIN row THEN row.confidence ELSE NONE

-----------------------------------------------------------------------------
(* Pushes processed from the payload's own file lists *)

\* the step ends unit i in the fallback branch, for a reason other than a
\* rejected token, over n >= 1 commits that all carry an id
EstimatedEnd(i) ==
    /\ UnitEnds(i)
    /\ tasks[i].pc = "fallback" /\ ~auth_failed(tasks[i].err)
    /\ task_commits(tasks[i].data) # <<>>
    /\ \A k \in DOMAIN task_commits(tasks[i].data) :
           ~commit_raises(task_commits(tasks[i].data)[k])

\* n rows in payload order, each with the commit's file counts, and one report
\* with the n entries in that order, each tagged "estimated"; a report the
\* Telegram API refuses is printed instead of posted
EstimatedOutcome(i) ==
    LET t == tasks[i]
        commits == task_commits(t.data)
    IN  /\ project_updates' = project_updates \o NewRows
        /\ Len(NewRows) = Len(commits)
        /\ \A k \in DOMAIN commits :
               /\ NewRows[k].summary.commit = commits[k].id
               /\ NewRows[k].chat_id = t.chat_id /\ NewRows[k].author = t.author
               /\ NewRows[k].files_added = commits[k].added
               /\ NewRows[k].files_modified = commits[k].modified
               /\ NewRows[k].files_removed = commits[k].removed
               /\ NewRows[k].lines_added = 0 /\ NewRows[k].lines_removed = 0
        /\ \/ NewMessages = <<>> /\ NewLines = <<"send_to_telegram">>
           \/ /\ NewLines = <<>>
              /\ Len(NewMessages) = 1
              /\ NewMessages[1].kind = "report" /\ NewMessages[1].chat_id = t.chat_id
              /\ Len(NewMessages[1].items) = Len(commits)
              /\ \A k \in DOMAIN commits :
                     /\ NewMessages[1].items[k].commit = commits[k].id
                     /\ NewMessages[1].items[k].confidence = "estimated"

-----------------------------------------------------------------------------
(* Pushes processed from the compare API's answer *)

\* the step ends unit i in the exact branch
ExactEnd(i) == UnitEnds(i) /\ tasks[i].pc = "exact"

\* one row, whose line counts are the sums over the files of the answer, and
\* one message tagged "exact" (printed instead of posted when refused)
ExactOutcome(i) ==
    LET t == tasks[i]
    IN  /\ project_updates' = project_updates \o NewRows
        /\ Len(NewRows) = 1
        /\ NewRows[1].chat_id = t.chat_id /\ NewRows[1].author = t.author
        /\ t.files = Files1 => NewRows[1].lines_added = 5 /\ NewRows[1].lines_removed = 1
        /\ t.files = Files2 => NewRows[1].lines_added = 42 /\ NewRows[1].lines_removed = 7
        /\ \A f \in t.files :
               /\ NewRows[1].lines_added >= f.additions
               /\ NewRows[1].lines_removed >= f.deletions
        /\ \/ NewMessages = <<>> /\ NewLines = <<"send_to_telegram">>
           \/ /\ NewLines = <<>>
              /\ Len(NewMessages) = 1
              /\ NewMessages[1].kind = "exact" /\ NewMessages[1].chat_id = t.chat_id
              /\ \A k \in DOMAIN NewMessages[1].items :
                     NewMessages[1].items[k].confidence = "exact"

\* C22 (as stated): for a push whose diff resolution succeeds, the row written
\* has lines_added equal to the sum of additions and lines_removed equal to the
\* sum of deletions over the files of the answer, and its confidence is "exact"
C22_ExactEventTagged ==
    [][\A i \in 1..MaxRequests :
          ExactEnd(i) => /\ ExactOutcome(i)
                         /\ row_confidence(NewRows[1]) = "exact"]_vars

\* C22 (amended): for such a push the one row written has lines_added equal to
\* the sum of additions and lines_removed equal to the sum of deletions over
\* the files of the answer; the tag "exact" is in the message posted for the
\* push, the row records no confidence
C22_ExactSums ==
    [][\A i \in 1..MaxRequests :
          ExactEnd(i) => /\ ExactOutcome(i)
                         /\ row_confidence(NewRows[1]) = NONE]_vars

\* a push resolved to +42/-7 was written and its message tagged "exact" posted
C22_Witness ==
    /\ \E j \in DOMAIN project_updates :
           project_updates[j].lines_added = 42 /\ project_updates[j].lines_removed = 7
    /\ \E m \in Range(sent) : m.kind = "exact"

-----------------------------------------------------------------------------
(* Rows per push *)

\* C23: every push unit writes one row per commit listed in the payload,
\* whichever the outcome of diff resolution, and every row it writes belongs
\* to the tenant of the inbound event (stated for commits that all carry an id)
C23_OneRowPerCommit ==
    [][\A i \in 1..MaxRequests :
          ( /\ UnitEnds(i)
            /\ tasks[i].pc \in {"exact", "fallback", "marked"}
            /\ \A k \in DOMAIN tasks[i].data.commits :
                   ~commit_raises(tasks[i].data.commits[k]) )
          => /\ project_updates' = project_updates \o NewRows
             /\ Len(NewRows) = Len(tasks[i].data.commits)
             /\ \A k \in DOMAIN NewRows : NewRows[k].chat_id = tasks[i].chat_id]_vars

-----------------------------------------------------------------------------
(* The administrative credential *)

\* the step is an exchange on one of the two admin routes
AdminStep == last' # last /\ last'.route \in {"admin", "flush"}

\* C24: a toggle or flush request whose key is missing or differs from
\* ADMIN_KEY, or that arrives when no ADMIN_KEY is configured, is answered 401
\* Unauthorized and leaves the flag, the Pending Queue and project_updates as
\* they were; nothing the flush callback touches changes
C24_AdminKeyRequired ==
    [][(AdminStep /\ (~Truthy(ADMIN_KEY) \/ last'.key # ADMIN_KEY))
          => /\ last'.status = 401 /\ last'.text = "Unauthorized"
             /\ last'.counts = <<0, 0>> /\ last'.wrote = 0
             /\ UNCHANGED <<flag, pending_commits, project_updates, github_tokens,
                            sent, tasks>>]_vars

\* the right key was refused because no ADMIN_KEY is configured, with the gate
\* closed and entries queued
C24_Witness ==
    /\ last.route \in {"admin", "flush"} /\ last.status = 401
    /\ ~Truthy(ADMIN_KEY) /\ last.key = "adm"
    /\ flag /\ pending_commits # <<>>

-----------------------------------------------------------------------------
(* The counts of a flush *)

\* C25: in a flush, every entry read that is processed (one that yields no
\* update included) is counted as sent and deleted, every entry read whose
\* reconstruction throws is counted as failed and stays in the queue, in its
\* place; sent + failed is the number of entries read
C25_FlushCounts ==
    [][(AdminStep /\ FlushExchange(last'))
          => LET q == pending_commits
                 sel == {k \in DOMAIN q : last'.chat = NONE \/ q[k].chat_id = last'.chat}
                 read == {k \in sel : Cardinality({j \in sel : j < k}) < FlushBatch}
                 bad == {k \in read : q[k].raw.json = "malformed"}
                 keep == (DOMAIN q \ read) \cup bad
                 nth(n) == CHOOSE k \in keep : Cardinality({j \in keep : j <= k}) = n
             IN  /\ last'.counts = <<Cardinality(read \ bad), Cardinality(bad)>>
                 /\ last'.counts[1] + last'.counts[2] = Cardinality(read)
                 /\ Len(pending_commits') = Cardinality(keep)
                 /\ \A n \in DOMAIN pending_commits' : pending_commits'[n] = q[nth(n)]]_vars

\* a flush counted one entry as sent that yielded no row and one as failed,
\* and the failed one is what the queue holds
C25_Witness ==
    /\ FlushExchange(last) /\ last.counts = <<1, 1>> /\ last.wrote = 0
    /\ Len(pending_commits) = 1 /\ pending_commits[1].raw.json = "malformed"

-----------------------------------------------------------------------------
(* Failures of the summarizer and of the notifier *)

\* the step ends a push unit whose commits all carry an id
PushEnd(i) ==
    /\ UnitEnds(i)
    /\ tasks[i].pc \in {"exact", "fallback", "marked"}
    /\ \A k \in DOMAIN task_commits(tasks[i].data) :
           ~commit_raises(task_commits(tasks[i].data)[k])

\* the summaries a unit has to write: one per commit, one in all when exact
Summaries(t) == IF t.pc = "exact" THEN 1 ELSE Len(task_commits(t.data))

\* the step made the notification call: the message was posted, or refused
\* and printed
Notified == Len(NewMessages) + Len(SelectSeq(NewLines, LAMBDA l : l = "send_to_telegram")) = 1

\* C26: whether or not the summarizer fails on a commit, the unit writes that
\* commit's row, with the summarizer's text or else the placeholder that holds
\* the failure reason, writes the rows of the commits after it, and makes the
\* notification call
C26_SummarizerFailureKept ==
    [][\A i \in 1..MaxRequests :
          PushEnd(i) =>
              /\ Len(NewRows) = Summaries(tasks[i])
              /\ \A k \in DOMAIN NewRows :
                     /\ NewRows[k].summary.text \in {"review", "AI Analysis Failed"}
                     /\ tasks[i].pc # "exact" =>
                            NewRows[k].summary.commit = task_commits(tasks[i].data)[k].id
              /\ Summaries(tasks[i]) > 0 => Notified]_vars

\* the only unit so far wrote the placeholder for its first commit, the
\* summary of its second and posted the report of both
C26_Witness ==
    /\ nreq = 1 /\ tasks = <<>>
    /\ Len(project_updates) = 2
    /\ project_updates[1].summary = [commit |-> "c1", text |-> "AI Analysis Failed"]
    /\ project_updates[2].summary = [commit |-> "c2", text |-> "review"]
    /\ Len(sent) = 1 /\ sent[1].kind = "report" /\ Len(sent[1].items) = 2

\* C27: when the report of a unit is refused by the Telegram API or the call
\* raises, every row the unit wrote stays in project_updates, the failure is
\* printed by the notifier and the unit ends without an error of its own
C27_NotifierFailureContained ==
    [][\A i \in 1..MaxRequests :
          (PushEnd(i) /\ Summaries(tasks[i]) > 0 /\ NewMessages = <<>>)
          => /\ NewLines = <<"send_to_telegram">>
             /\ project_updates' = project_updates \o NewRows
             /\ Len(NewRows) = Summaries(tasks[i])
             /\ \A k \in DOMAIN NewRows : NewRows[k].chat_id = tasks[i].chat_id]_vars

\* a two-commit unit whose report was refused: its rows are there, nothing was
\* posted and only the notifier's line was printed
C27_Witness ==
    /\ log = <<"send_to_telegram">> /\ sent = <<>> /\ tasks = <<>> /\ nreq = 1
    /\ Len(project_updates) = 2

-----------------------------------------------------------------------------
(* Errors inside a unit of work *)

\* C28: a step in which a unit's own handler catches an error ends that unit
\* only: every other unit, submitted before or after it, stays in the pool as
\* it was, the rows written before the step are as they were, what the failed
\* unit wrote before the error is its own tenant's, and the route still
\* accepts deliveries
C28_ErrorContained ==
    [][(NewLines # <<>> /\ NewLines[Len(NewLines)] = "process_standup_task")
          => \E i \in DOMAIN tasks :
                 /\ tasks' = RemoveAt(tasks, i)
                 /\ project_updates' = project_updates \o NewRows
                 /\ \A k \in DOMAIN NewRows : NewRows[k].chat_id = tasks[i].chat_id
                 /\ UNCHANGED <<github_tokens, pending_commits, sent, flag, nreq>>]_vars

\* a unit raised after its first row; the unit submitted with it then ran to
\* its end and wrote its two rows
C28_Witness ==
    /\ log = <<"process_standup_task">> /\ tasks = <<>> /\ nreq = 2
    /\ Len(project_updates) = 3
    /\ project_updates[1].chat_id = "t2" /\ project_updates[1].summary.commit = "c3"
    /\ project_updates[2].chat_id = "t1" /\ project_updates[3].chat_id = "t1"

-----------------------------------------------------------------------------
(* SpecStorage: flushes of a Pending Queue found at start while the INSERT    *)
(* into project_updates fails and recovers                                   *)

InitStorage ==
    /\ webhooks = {[secret_key |-> "s1", chat_id |-> "t1"],
                   [secret_key |-> "s2", chat_id |-> "t2"]}
    /\ github_tokens = {[chat_id |-> "t2", token |-> "ghp_a", created_by |-> "u1name"]}
    /\ pending_token_requests = <<>>
    /\ project_updates = <<>>
    /\ pull_requests = {}
    /\ pr_reviews = {}
    /\ issues_closed = {}
    /\ pending_commits \in SeqsUpTo(QueuePool, MaxQueue)
    /\ tasks = <<>>
    /\ sent = <<>>
    /\ flag = FALSE
    /\ hooked = TRUE
    /\ ADMIN_KEY = "adm"
    /\ now = 0
    /\ last = NoExchange
    /\ nreq = 0
    /\ log = <<>>
    /\ insert_ok \in BOOLEAN

StorageFlush ==
    \E flush_chat \in {NONE, "t1"}, answer \in {"200", "500"} :
        _flush_pending("adm", flush_chat, answer, Files1)

\* the INSERT starts to fail, or works again
StorageTurn ==
    /\ insert_ok' = ~insert_ok
    /\ UNCHANGED <<config, log, stores, tasks, sent, flag, now, last, nreq>>

NextStorage == StorageFlush \/ StorageTurn

SpecStorage == InitStorage /\ [][NextStorage]_vars

-----------------------------------------------------------------------------
(* SpecSwitch: the maintenance route under every key, mode and outcome of the *)
(* flag file's write, next to pushes and their units of work                 *)

\* the mode parameter: absent, empty, either spelling of on and off, another word
ModeInputs == {NONE, "", "on", "ON", "off", "OFF", "status"}

Switch ==
    \E key \in KeyInputs, mode \in ModeInputs, fs_ok \in BOOLEAN :
        _toggle_maintenance(key, mode, "0", NONE, fs_ok, "200", Files1)

NextSwitch == GatePush \/ Compare \/ Finish \/ Switch

SpecSwitch == Init /\ [][NextSwitch]_vars

\* the step is an exchange on the maintenance route with the right key
AuthorizedToggle ==
    /\ last' # last /\ last'.route = "admin"
    /\ Truthy(ADMIN_KEY) /\ last'.key = ADMIN_KEY

\* what every step does to the flag, but for mode=on and mode=off themselves
GateFrame ==
    /\ flag' \in BOOLEAN
    /\ (AuthorizedToggle /\ last'.kind \notin {"on", "ON", "off", "OFF"})
           => /\ flag' = flag
              /\ last'.status = 200 /\ last'.text = (IF flag THEN "ON" ELSE "OFF")
    /\ (last' # last /\ last'.route = "admin" /\ last'.status # 200) => flag' = flag
    /\ ~(last' # last /\ last'.route = "admin") => flag' = flag

-----------------------------------------------------------------------------
(* Leaving the closed gate *)

\* a request mode=off with the administrative credential that opens the gate
OpenGate ==
    /\ \E fs_ok \in BOOLEAN : _toggle_maintenance(ADMIN_KEY, "off", "0", NONE, fs_ok, "200", Files1)
    /\ last'.status = 200
    /\ ~flag'

\* C31: in every state in which the flag file exists, the maintenance route is
\* served and a request mode=off with the administrative credential can be
\* answered 200 with the flag file gone: the closed gate can always be left
C31_ClosedCanBeLeft == flag => ENABLED OpenGate

\* with the hook registered, the gate was closed and a request mode=off opened it
C31_Witness ==
    /\ hooked /\ ~flag
    /\ last.route = "admin" /\ last.kind \in {"off", "OFF"} /\ last.status = 200
    /\ last.closed

-----------------------------------------------------------------------------
(* SpecAuto: the maintenance route over a Pending Queue found at start, with  *)
(* a flag file that may not be writable and a flush that may raise           *)

InitAuto ==
    /\ webhooks = {[secret_key |-> "s1", chat_id |-> "t1"],
                   [secret_key |-> "s2", chat_id |-> "t2"]}
    /\ github_tokens = {[chat_id |-> "t2", token |-> "ghp_a", created_by |-> "u1name"]}
    /\ pending_token_requests = <<>>
    /\ project_updates = <<>>
    /\ pull_requests = {}
    /\ pr_reviews = {}
    /\ issues_closed = {}
    /\ pending_commits \in SeqsUpTo(QueuePool, MaxQueue)
    /\ tasks = <<>>
    /\ sent = <<>>
    /\ flag = TRUE
    /\ hooked = TRUE
    /\ ADMIN_KEY = "adm"
    /\ now = 0
    /\ last = NoExchange
    /\ nreq = 0
    /\ log = <<>>
    /\ insert_ok = TRUE

AutoToggle ==
    \E mode \in {"on", "off"}, auto_flush \in {NONE, "0", "1"}, fs_ok \in BOOLEAN :
        _toggle_maintenance("adm", mode, auto_flush, NONE, fs_ok, "200", Files1)

MaxLog == 2     \* error lines kept before a raising flush is no longer explored

AutoRaises ==
    \E n \in 0..FlushBatch, fs_ok \in BOOLEAN :
        /\ Len(log) < MaxLog
        /\ _toggle_maintenance_flush_raises("adm", NONE, fs_ok, n, "200", Files1)

NextAuto == AutoToggle \/ AutoRaises

SpecAuto == InitAuto /\ [][NextAuto]_vars

\* the step is an exchange on the maintenance route
ToggleStep == last' # last /\ last'.route = "admin"

\* the step shows an effect of the flush callback
FlushRan ==
    \/ pending_commits' # pending_commits \/ project_updates' # project_updates
    \/ sent' # sent \/ github_tokens' # github_tokens
    \/ last'.counts # <<0, 0>>
    \/ last'.text \in {"DISABLED auto-flush", "DISABLED auto-flush failed"}

\* every entry that left the queue in the step has its first row in project_updates
NothingLost ==
    \A e \in Range(pending_commits) :
        (e \notin Range(pending_commits') /\ e.raw.json = "object"
           /\ task_commits(e.raw) # <<>>)
        => \E k \in DOMAIN NewRows :
               /\ NewRows[k].chat_id = e.chat_id
               /\ NewRows[k].summary.commit = task_commits(e.raw)[1].id

-----------------------------------------------------------------------------
(* Two requests of one user *)

\* user u has a request for one tenant and a newer one for another tenant,
\* both no more than 15 minutes old
TwoLiveRequests(u) ==
    LET rows == SelectSeq(pending_token_requests, LAMBDA r : r.user_id = u)
    IN  /\ Len(rows) >= 2
        /\ rows[Len(rows) - 1].chat_id # rows[Len(rows)].chat_id
        /\ now - rows[Len(rows) - 1].created_at <= expiry_minutes
        /\ now - rows[Len(rows)].created_at <= expiry_minutes

-----------------------------------------------------------------------------
(* SpecRetry: the handshake when the credential store can refuse a row *)

PasteUnsaved == \E u \in Users, text \in Tokens : token_paste_unsaved(u, text)

NextRetry == Start \/ Paste \/ PasteUnsaved \/ Remove \/ Clock

SpecRetry == InitVault /\ [][NextRetry]_vars

\* C34: a step that deletes a pending request is a completed install, a
\* /remove_github_token, or a lookup that found the request expired; a pasted
\* token that validates but is not stored leaves the user's request in place
C34_RequestKeptWhenStoreFails ==
    [][/\ (\E r \in Range(pending_token_requests) : r \notin Range(pending_token_requests'))
            => \/ last'.kind = "token" /\ last'.text = "saved"
               \/ last'.kind = "remove" /\ last'.text = "removed"
               \/ "delete-expired" \in last'.did
        /\ \A u \in Users :
              (PasteStep(u) /\ LiveRequest(u) /\ last'.upstream.answer = "200"
                 /\ last'.text # "saved")
                  => pending_token_requests' = pending_token_requests]_vars

\* C35: a step after which tenant T holds a credential it did not hold before
\* is a pasted token that upstream validation accepted, from a user whose
\* newest pending request is for T and no more than 15 minutes old; no
\* credential exists at start, so none exists without such a step
C35_CredentialOnlyByInstall ==
    [][\A T \in Tenants :
          LET before == {r \in github_tokens : r.chat_id = T}
              after == {r \in github_tokens' : r.chat_id = T}
          IN  (after # {} /\ after # before)
                  => \E u \in Users :
                        /\ PasteStep(u) /\ LiveRequest(u) /\ RequestedTenant(u) = T
                        /\ last'.upstream.answer = "200"
                        /\ after = {[chat_id |-> T, token |-> last'.upstream.token,
                                     created_by |-> Username(u)]}]_vars

\* a tenant without a credential got one from a request that was exactly 15
\* minutes old
C35_Witness ==
    /\ last.kind = "token" /\ last.text = "saved" /\ "overwrite" \notin last.did
    /\ now = expiry_minutes
    /\ TokenRows(last.chat) # {}
    /\ \E T \in Tenants : TokenRows(T) = {}

-----------------------------------------------------------------------------
(* SpecRegistry: /gitsync in two chats and deliveries under every secret *)

Secrets == {"s1", "s2", "s3"}

InitRegistry ==
    /\ webhooks = {[secret_key |-> "s1", chat_id |-> "t1"]}
    /\ github_tokens = {}
    /\ pending_token_requests = <<>>
    /\ project_updates = <<>>
    /\ pull_requests = {}
    /\ pr_reviews = {}
    /\ issues_closed = {}
    /\ pending_commits = <<>>
    /\ tasks = <<>>
    /\ sent = <<>>
    /\ flag = FALSE
    /\ hooked = FALSE
    /\ ADMIN_KEY = "adm"
    /\ now = 0
    /\ last = NoExchange
    /\ nreq = 0
    /\ log = <<>>
    /\ insert_ok = TRUE

Gitsync == \E chat_id \in Tenants, new_key \in Secrets : gitsync_command(chat_id, new_key)

RegistryPush ==
    \E secret_key \in Secrets, chat_id \in Tenants :
        git_webhook(Push("alice", <<c1>>, FALSE), secret_key, chat_id, "push")

NextRegistry == Gitsync \/ RegistryPush

SpecRegistry == InitRegistry /\ [][NextRegistry]_vars

\* each tenant has at most one secret and each secret at most one tenant
OneToOne ==
    \A v, w \in webhooks :
        (v.chat_id = w.chat_id \/ v.secret_key = w.secret_key) => v = w

\* the step is a /gitsync of chat T that changed the registry
Regenerated(T) ==
    /\ last' # last /\ last'.kind = "gitsync" /\ last'.chat = T
    /\ webhooks' # webhooks

\* C36: after a /gitsync that changed chat T's row of webhooks, a webhook
\* with the key of the reply is authorized for T and one with the key T had
\* before is not; and in every state no two rows of webhooks share a chat or
\* a key
C36_SecretRegenerated ==
    /\ []OneToOne
    /\ [][\A T \in Tenants :
            Regenerated(T)
                => \A k \in Secrets \cup {NONE} :
                      /\ k = last'.text => git_webhook_authorized(k, T)'
                      /\ (k = get_secret_from_chat_id(T) /\ k # last'.text)
                            => ~git_webhook_authorized(k, T)'
                      /\ \A U \in Tenants \ {T} :
                            git_webhook_authorized(k, U)' = git_webhook_authorized(k, U)]_vars

\* the tenant that had the secret s1 at start got another by /gitsync, while
\* the other tenant is registered too
C36_Witness ==
    /\ last.kind = "gitsync" /\ last.chat = "t1" /\ last.text # "s1"
    /\ get_secret_from_chat_id("t1") = last.text
    /\ ~git_webhook_authorized("s1", "t1")
    /\ get_secret_from_chat_id("t2") # NONE

-----------------------------------------------------------------------------
(* Revocation against a concurrent install *)

\* C37: the revocation step of a unit of work deletes no credential other
\* than the one its compare call presented: a row of github_tokens with
\* another token, installed after the rejected call, is still there
C37_OnlyRejectedRevoked ==
    [][\A i \in 1..max_workers :
          (/\ i \in DOMAIN tasks /\ i \in DOMAIN tasks'
           /\ tasks[i].pc = "fallback" /\ tasks'[i].pc = "marked")
              => \A r \in github_tokens :
                    r.token # tasks[i].token => r \in github_tokens']_vars

-----------------------------------------------------------------------------
(* SpecResolve: pushes with and without what the compare call needs *)

\* without the revisions, with everything, and without repository.name
ResolveDeliveries ==
    {Push("alice", <<c1>>, FALSE), Push("alice", <<c1>>, TRUE),
     Unnamed(Push("alice", <<c1>>, TRUE))}

ResolveWebhook == \E d \in ResolveDeliveries : git_webhook(d, "s1", "t1", "push")

ResolveCompare ==
    \E i \in 1..MaxRequests, answer \in UpstreamAnswers : TaskCompare(i, answer, Files1)

ResolveRevoke == \E i \in 1..MaxRequests : TaskRevoke(i)

NextResolve == ResolveWebhook \/ ResolveCompare \/ ResolveRevoke \/ Finish

SpecResolve == InitUnit /\ [][NextResolve]_vars

\* the step is the compare step of unit of work i
CompareStep(i) ==
    /\ i \in DOMAIN tasks /\ i \in DOMAIN tasks'
    /\ tasks[i].pc = "queued" /\ tasks'[i].pc # "queued"

\* C39: the compare step of a unit of work presents a token to the upstream
\* provider only when the payload has both revisions, the owner and the
\* repository name and the tenant holds a credential; in every other case the
\* unit goes on to the estimated counts, with no authorization failure to
\* revoke for, and the step changes no credential
C39_CompareOnlyWhenResolvable ==
    [][\A i \in 1..max_workers :
          CompareStep(i)
              => LET data == tasks[i].data
                     complete == data.revs /\ data.name
                     called == Truthy(tasks'[i].token)
                 IN  /\ called => (complete /\ TokenRows(tasks[i].chat_id) # {})
                     /\ ~(complete /\ TokenRows(tasks[i].chat_id) # {})
                           => /\ tasks'[i].pc = "fallback"
                              /\ tasks'[i].err \notin AuthErrs
                     /\ github_tokens' = github_tokens]_vars

-----------------------------------------------------------------------------
(* SpecAuthor: deliveries that name their author in every way a payload can *)

\* a pusher with a name, a pusher object without one beside a sender, a sender
\* alone, a sender object without a login, neither, and two kinds that the
\* route does not know
AuthorDeliveries ==
    {<<"push", Push("alice", <<c1>>, FALSE)>>,
     <<"push", Body("object", NONE, "bob", <<c1>>, <<>>, FALSE, <<>>, <<>>, <<>>)>>,
     <<"push", Body("object", ABSENT, "bob", <<c1>>, <<>>, FALSE, <<>>, <<>>, <<>>)>>,
     <<"push", Body("object", ABSENT, NONE, <<c1>>, <<>>, FALSE, <<>>, <<>>, <<>>)>>,
     <<"push", Push(ABSENT, <<c1>>, FALSE)>>,
     <<"ping", Push(ABSENT, <<>>, FALSE)>>,
     <<"release", Push("alice", <<c1>>, FALSE)>>}

AuthorWebhook == \E d \in AuthorDeliveries : git_webhook(d[2], "s1", "t1", d[1])

NextAuthor == AuthorWebhook \/ Compare \/ Finish

SpecAuthor == InitVault /\ [][NextAuthor]_vars

\* the payload field holds a name
Named(v) == v \notin {ABSENT, NOTDICT, NONE, ""}

\* C40: a delivery that is accepted and whose kind is none of pull_request,
\* pull_request_review, issues submits one unit of work, whose author is the
\* pusher's name when the payload has one, else the sender's login when it has
\* one, else "Unknown"; and no row of project_updates has an empty or null
\* author
C40_AuthorExtracted ==
    /\ [](\A k \in DOMAIN project_updates : Truthy(project_updates[k].author))
    /\ [][(WebhookStep /\ last'.status = 200 /\ last'.kind \notin DispatchKinds)
            => /\ Len(tasks') = Len(tasks) + 1
               /\ LET t == tasks'[Len(tasks')]
                  IN  /\ t.author = IF Named(t.data.pusher) THEN t.data.pusher
                                    ELSE IF Named(t.data.sender) THEN t.data.sender
                                    ELSE "Unknown"
                      /\ Truthy(t.author)]_vars

=============================================================================
